---- MODULE Spec2Model ----
(***************************************************************************)
(* Email classification pipeline: the similarity/confidence matcher, the   *)
(* provider-fallback classification chain and the orchestrator             *)
(* (app/services/similarity_matcher.py, app/llm/models.py,                 *)
(* app/llm/chains.py, app/services/email_processor.py,                     *)
(* app/database/vector_store.py).                                          *)
(*                                                                         *)
(* Python strings are sequences of one-character strings.  Python floats   *)
(* in [0,1] are integers: similarities and domain weights in hundredths,   *)
(* confidences (a similarity times a weight, or an LLM confidence) in      *)
(* ten-thousandths.                                                        *)
(***************************************************************************)
EXTENDS Integers, Sequences, FiniteSets, TLC

VARIABLES
    mq, mc, msim, mout,
    htext, hout,
    icfg, ipc, itodo, imodels, iattempts, igot,
    llm, emb, mockIdx, index, runs, phase, cur, prev,
    eenv, epc, etodo, eself, eattempts,
    bstore, bquery, bcands, bout,
    tpc, tretries, thistory, tprocessed, tstored,
    cmeta, centity, ccategory,
    dcontent, dresponse, dout,
    fcontent, fmeta, fout,
    kenv, kpc, kself,
    wcoll, wissued, wpc, wdoc, wadded, wsize0,
    semail, sraised, sclean,
    rentity, rcategory, rentry, rback

mvars == <<mq, mc, msim, mout>>
hvars == <<htext, hout>>
ivars == <<icfg, ipc, itodo, imodels, iattempts, igot>>
pvars == <<llm, emb, mockIdx, index, runs, phase, cur, prev>>
evars == <<eenv, epc, etodo, eself, eattempts>>
bvars == <<bstore, bquery, bcands, bout>>
tvars == <<tpc, tretries, thistory, tprocessed, tstored>>
cvars == <<cmeta, centity, ccategory>>
dvars == <<dcontent, dresponse, dout>>
fvars == <<fcontent, fmeta, fout>>
kvars == <<kenv, kpc, kself>>
wvars == <<wcoll, wissued, wpc, wdoc, wadded, wsize0>>
svars == <<semail, sraised, sclean>>
rvars == <<rentity, rcategory, rentry, rback>>
\* the variables of the machines added after the pipeline
avars == <<evars, bvars, tvars, cvars, dvars, fvars, kvars, wvars, svars, rvars>>
vars == <<mvars, hvars, ivars, pvars, avars>>

\* Python's None; no string (a sequence of one-character strings) equals it.
None == <<"<None>">>

----------------------------------------------------------------------------
(* Python str operations *)

UpperAlpha == <<"A","B","C","D","E","F","G","H","I","J","K","L","M",
                "N","O","P","Q","R","S","T","U","V","W","X","Y","Z">>
LowerAlpha == <<"a","b","c","d","e","f","g","h","i","j","k","l","m",
                "n","o","p","q","r","s","t","u","v","w","x","y","z">>
Whitespace == {" ", "\t", "\n"}

LowerChar(ch) ==
    IF \E i \in 1..26 : UpperAlpha[i] = ch
    THEN LowerAlpha[CHOOSE i \in 1..26 : UpperAlpha[i] = ch]
    ELSE ch

UpperChar(ch) ==
    IF \E i \in 1..26 : LowerAlpha[i] = ch
    THEN UpperAlpha[CHOOSE i \in 1..26 : LowerAlpha[i] = ch]
    ELSE ch

\* str.lower()
lower(s) == [i \in 1..Len(s) |-> LowerChar(s[i])]

\* str.strip()
strip(s) ==
    LET keep == {i \in 1..Len(s) : s[i] \notin Whitespace}
    IN  IF keep = {} THEN <<>>
        ELSE LET lo == CHOOSE i \in keep : \A j \in keep : i <= j
                 hi == CHOOSE i \in keep : \A j \in keep : j <= i
             IN  SubSeq(s, lo, hi)

\* str.startswith(t), str.endswith(t)
startswith(s, t) == Len(t) <= Len(s) /\ SubSeq(s, 1, Len(t)) = t
endswith(s, t) == Len(t) <= Len(s) /\ SubSeq(s, Len(s) - Len(t) + 1, Len(s)) = t

\* t in s
contains(s, t) ==
    \E i \in 1..(Len(s) - Len(t) + 1) : SubSeq(s, i, i + Len(t) - 1) = t

\* s[n:]
from(s, n) == SubSeq(s, n + 1, Len(s))

\* s.split(sep), sep one character
split(s, sep) ==
    LET dots == {i \in 1..Len(s) : s[i] = sep}
        F[k \in 0..Len(s)] ==
            \* the parts of s[1..k], the last one still open
            IF k = 0 THEN << <<>> >>
            ELSE LET p == F[k - 1]
                 IN  IF k \in dots THEN Append(p, <<>>)
                     ELSE [p EXCEPT ![Len(p)] = Append(@, s[k])]
    IN  F[Len(s)]

\* '.'.join(parts)
RECURSIVE join(_)
join(parts) ==
    IF Len(parts) = 0 THEN <<>>
    ELSE IF Len(parts) = 1 THEN parts[1]
    ELSE parts[1] \o <<".">> \o join(Tail(parts))

\* str.capitalize(): first character upper-cased, the rest lower-cased
capitalize(s) ==
    [i \in 1..Len(s) |-> IF i = 1 THEN UpperChar(s[i]) ELSE LowerChar(s[i])]

----------------------------------------------------------------------------
(* Settings (app/config.py); weights and similarities in hundredths,       *)
(* confidences in ten-thousandths                                          *)

exact_domain_weight == 100
similar_domain_weight == 80
default_domain_weight == 50
confidence_threshold == 8500

----------------------------------------------------------------------------
(* SimilarityMatcher (app/services/similarity_matcher.py) *)

\* Variant with a fault: the root is the last label alone
RootIsLastLabel(domain) ==
    LET parts == split(domain, ".")
    IN  parts[Len(parts)]

_extract_root_domain(domain) ==
    LET parts == split(domain, ".")
    IN  IF Len(parts) >= 2
        THEN join(SubSeq(parts, Len(parts) - 1, Len(parts)))
        ELSE domain

common_prefixes ==
    { <<"m","a","i","l">>, <<"e","m","a","i","l">>, <<"s","m","t","p">>,
      <<"n","o","r","e","p","l","y">>, <<"n","o","-","r","e","p","l","y">> }

\* Variant with a fault: the sub-domain and prefix tests look one way only
SimilarOneWay(domain1, domain2) ==
    LET root1 == _extract_root_domain(domain1)
        root2 == _extract_root_domain(domain2)
    IN  \/ root1 = root2
        \/ endswith(domain1, <<".">> \o domain2)
        \/ \E prefix \in common_prefixes :
              startswith(domain1, prefix \o <<".">>) /\ from(domain1, Len(prefix) + 1) = domain2

_are_domains_similar(domain1, domain2) ==
    LET root1 == _extract_root_domain(domain1)
        root2 == _extract_root_domain(domain2)
    IN  IF root1 = root2 THEN TRUE
        ELSE IF endswith(domain1, <<".">> \o domain2)
                \/ endswith(domain2, <<".">> \o domain1) THEN TRUE
        ELSE \E prefix \in common_prefixes :
                \/ /\ startswith(domain1, prefix \o <<".">>)
                   /\ from(domain1, Len(prefix) + 1) = domain2
                \/ /\ startswith(domain2, prefix \o <<".">>)
                   /\ from(domain2, Len(prefix) + 1) = domain1

\* "not x" for an Optional[str]
Falsy(x) == x = None \/ x = <<>>

\* Variant with a fault: the domains are compared as given
WeightAsGiven(query_domain, candidate_domain) ==
    IF Falsy(query_domain) \/ Falsy(candidate_domain) THEN default_domain_weight
    ELSE IF query_domain = candidate_domain THEN exact_domain_weight
    ELSE IF _are_domains_similar(query_domain, candidate_domain) THEN similar_domain_weight
    ELSE default_domain_weight

_calculate_domain_weight(query_domain, candidate_domain) ==
    IF Falsy(query_domain) \/ Falsy(candidate_domain)
    THEN default_domain_weight
    ELSE LET qd == strip(lower(query_domain))
             cd == strip(lower(candidate_domain))
         IN  IF qd = cd THEN exact_domain_weight
             ELSE IF _are_domains_similar(qd, cd) THEN similar_domain_weight
             ELSE default_domain_weight

\* A candidate is the dict search_similar_emails builds: similarity and the
\* stored metadata.  The result is the VectorMatch.
_calculate_confidence_score(candidate, query_domain) ==
    LET similarity_score == candidate.similarity
        candidate_domain == candidate.metadata.sender_domain
        domain_weight == _calculate_domain_weight(query_domain, candidate_domain)
    IN  [ similarity_score |-> similarity_score,
          domain_weight |-> domain_weight,
          confidence_score |-> similarity_score * domain_weight,
          metadata |-> candidate.metadata ]

\* Variant with a fault: the threshold itself counts as confident
ConfidentAtThreshold(vector_match) ==
    vector_match.confidence_score >= confidence_threshold

is_confident_match(vector_match) ==
    vector_match.confidence_score > confidence_threshold

----------------------------------------------------------------------------
(* VectorStoreService.search_similar_emails: one match of the result list *)

\* Distances the index reports, in hundredths (squared L2 of the default
\* collection space: 0 for an identical embedding, unbounded above).
Distances == {0, 5, 15, 100, 250}

SearchMatch(document, metadata, distance) ==
    [ document |-> document, metadata |-> metadata, distance |-> distance,
      similarity |-> 100 - distance ]

----------------------------------------------------------------------------
(* Inputs of the matcher's functions *)

MaxLabels == 3

L_acme == <<"a","c","m","e">>
L_com == <<"c","o","m">>
L_mail == <<"m","a","i","l">>
DomainLabels == {L_acme, L_com, L_mail}

LabelSeqs == UNION {[1..n -> DomainLabels] : n \in 1..MaxLabels}

Decorate(s, how) ==
    CASE how = "plain" -> s
      [] how = "upper" -> [i \in 1..Len(s) |-> IF i = 1 THEN UpperChar(s[i]) ELSE s[i]]
      [] how = "padded" -> <<" ">> \o s \o <<" ">>

PlainDomains == {join(ls) : ls \in LabelSeqs}
DecoratedDomains ==
    {Decorate(join(ls), how) : ls \in {x \in LabelSeqs : Len(x) <= 2}, how \in {"upper", "padded"}}
MDomains == PlainDomains \cup DecoratedDomains \cup {<<>>, <<" ">>, None}

----------------------------------------------------------------------------
(* EmailClassificationChain: the heuristic classifier (app/llm/chains.py) *)

marketing_keywords ==
    { <<"u","n","s","u","b","s","c","r","i","b","e">>,
      <<"n","e","w","s","l","e","t","t","e","r">>,
      <<"p","r","o","m","o","t","i","o","n">>,
      <<"o","f","f","e","r">>,
      <<"s","a","l","e">>,
      <<"d","i","s","c","o","u","n","t">> }

transactional_keywords ==
    { <<"o","r","d","e","r">>,
      <<"r","e","c","e","i","p","t">>,
      <<"c","o","n","f","i","r","m","a","t","i","o","n">>,
      <<"i","n","v","o","i","c","e">>,
      <<"p","a","y","m","e","n","t">>,
      <<"a","c","c","o","u","n","t">> }

survey_keywords ==
    { <<"s","u","r","v","e","y">>,
      <<"f","e","e","d","b","a","c","k">>,
      <<"q","u","e","s","t","i","o","n","n","a","i","r","e">>,
      <<"r","a","t","e">>,
      <<"r","e","v","i","e","w">> }

support_keywords ==
    { <<"s","u","p","p","o","r","t">>,
      <<"h","e","l","p">>,
      <<"t","i","c","k","e","t">>,
      <<"i","s","s","u","e">>,
      <<"p","r","o","b","l","e","m">>,
      <<"a","s","s","i","s","t","a","n","c","e">> }

\* Variant with a fault: the text is not lower-cased
HeuristicAsGiven(content) ==
    IF \E keyword \in marketing_keywords : contains(content, keyword) THEN "marketing"
    ELSE IF \E keyword \in transactional_keywords : contains(content, keyword) THEN "transactional"
    ELSE IF \E keyword \in survey_keywords : contains(content, keyword) THEN "survey"
    ELSE IF \E keyword \in support_keywords : contains(content, keyword) THEN "customer_support"
    ELSE "personal"

_heuristic_classification(content) ==
    LET content_lower == lower(content)
    IN  IF \E keyword \in marketing_keywords : contains(content_lower, keyword)
        THEN "marketing"
        ELSE IF \E keyword \in transactional_keywords : contains(content_lower, keyword)
        THEN "transactional"
        ELSE IF \E keyword \in survey_keywords : contains(content_lower, keyword)
        THEN "survey"
        ELSE IF \E keyword \in support_keywords : contains(content_lower, keyword)
        THEN "customer_support"
        ELSE "personal"

----------------------------------------------------------------------------
(* LLMModelManager (app/llm/models.py) *)

P_openai == <<"o","p","e","n","a","i">>
P_gemini == <<"g","e","m","i","n","i">>
P_ollama == <<"o","l","l","a","m","a">>

ModelNames == {"primary", "gpt-3.5-turbo", "gpt-4", "gemini-pro", "llama2", "mistral"}

\* self.models = {}
NoModels == [n \in ModelNames |-> "absent"]

\* The model names each provider registers, in the order of its constructor calls
OpenAINames == <<"primary", "gpt-3.5-turbo", "gpt-4">>
GeminiNames == <<"primary", "gemini-pro">>
OllamaNames == <<"primary", "llama2", "mistral">>

\* The first n constructor calls succeed and register their model; the
\* initializer raises at call n+1 when there is one.
Register(models, names, kind, n) ==
    [ models |-> [m \in ModelNames |->
                    IF \E i \in 1..n : i <= Len(names) /\ names[i] = m
                    THEN kind ELSE models[m]],
      raised |-> n < Len(names) ]

_initialize_openai_models(models, cfg) ==
    IF ~cfg.openai_api_key THEN [models |-> models, raised |-> TRUE]
    ELSE Register(models, OpenAINames, "ChatOpenAI", cfg.ctor.openai)

_initialize_gemini_models(models, cfg) ==
    IF ~cfg.GEMINI_AVAILABLE THEN [models |-> models, raised |-> TRUE]
    ELSE IF ~cfg.gemini_api_key THEN [models |-> models, raised |-> TRUE]
    ELSE Register(models, GeminiNames, "ChatGoogleGenerativeAI", cfg.ctor.gemini)

_initialize_ollama_models(models, cfg) ==
    Register(models, OllamaNames, "ChatOllama", cfg.ctor.ollama)

\* Variant with a fault: the mock is registered under its own name
MockUnderOwnName(models) ==
    [models EXCEPT !["mistral"] = "FakeListLLM"]

_create_mock_model(models) ==
    [models EXCEPT !["primary"] = "FakeListLLM"]

get_model(models, model_name) ==
    LET name1 == IF model_name \notin ModelNames \/ models[model_name] = "absent"
                 THEN "primary" ELSE model_name
    IN  IF models[name1] = "absent" THEN "raise" ELSE models[name1]

----------------------------------------------------------------------------
(* Message bodies.  A body is head, then fill filler characters "x", then   *)
(* tail; with fill = 0 the tail is empty.  The filler is no digit, no       *)
(* white space and occurs in no keyword.                                    *)

Txt(s) == [head |-> s, fill |-> 0, tail |-> <<>>]
Filled(s, n) == IF n = 0 THEN Txt(s) ELSE [head |-> s, fill |-> n, tail |-> <<>>]
EmptyText == Txt(<<>>)

\* len(t)
TLen(t) == Len(t.head) + t.fill + Len(t.tail)

\* t[:n]
TTake(t, n) ==
    IF n >= TLen(t) THEN t
    ELSE IF n <= Len(t.head) THEN Txt(SubSeq(t.head, 1, n))
    ELSE IF n <= Len(t.head) + t.fill THEN Filled(t.head, n - Len(t.head))
    ELSE [t EXCEPT !.tail = SubSeq(t.tail, 1, n - Len(t.head) - t.fill)]

\* t + s
TCat(t, s) ==
    IF t.fill = 0 THEN Txt(t.head \o s) ELSE [t EXCEPT !.tail = t.tail \o s]

\* The characters of t with the filler run shortened to one "x": the same
\* keywords and the same digit runs occur in it as in t.
Flat(t) == t.head \o (IF t.fill > 0 THEN <<"x">> ELSE <<>>) \o t.tail

\* "not t" for an Optional[str] body.  The code only ever tests a body for
\* truth, so a missing body (None) is the empty text here.
NoText(t) == TLen(t) = 0

----------------------------------------------------------------------------
(* Settings and capabilities of the pipeline *)

max_email_length == 10000

Digits == {"0","1","2","3","4","5","6","7","8","9"}
pii_mask_char == "*"

\* PIIProcessor.anonymize_text: the detected entities (here: the digits) are
\* masked character by character.
MaskSeq(s) == [i \in 1..Len(s) |-> IF s[i] \in Digits THEN pii_mask_char ELSE s[i]]
anonymize_text(t) == [t EXCEPT !.head = MaskSeq(t.head), !.tail = MaskSeq(t.tail)]

\* PIIProcessor.extract_pii_data: the entities found in the text (here: the
\* maximal digit runs, reported as phone numbers), without duplicates.
RunStarts(s) == {i \in 1..Len(s) : s[i] \in Digits /\ (i = 1 \/ s[i - 1] \notin Digits)}
RunAt(s, i) ==
    LET j == CHOOSE j \in i..Len(s) :
                /\ \A k \in i..j : s[k] \in Digits
                /\ (j = Len(s) \/ s[j + 1] \notin Digits)
    IN  SubSeq(s, i, j)
\* The digit runs of s[1..k], in order of first occurrence, each once
RECURSIVE DigitRunsUpTo(_, _)
DigitRunsUpTo(s, k) ==
    IF k = 0 THEN <<>>
    ELSE LET before == DigitRunsUpTo(s, k - 1)
         IN  IF k \in RunStarts(s) /\ ~\E n \in 1..Len(before) : before[n] = RunAt(s, k)
             THEN Append(before, RunAt(s, k))
             ELSE before
extract_pii_data(t) ==
    [ email |-> <<>>,
      phone_number |-> DigitRunsUpTo(Flat(t), Len(Flat(t))),
      credit_card_number |-> <<>> ]

\* ExtractedData(): every field None
NoData == [ email |-> None, phone_number |-> None, credit_card_number |-> None ]

----------------------------------------------------------------------------
(* URLs: urllib.parse.urlparse and pydantic's HttpUrl on the URLs used.     *)
(* A URL is a one-element sequence, so that it compares with None.          *)

U_shop == <<"https://shopify.com">>
U_shop_norm == <<"https://shopify.com/">>
U_long == <<"https://acme.com/<a path longer than HttpUrl allows>">>

\* urlparse(url).netloc
netloc(url) ==
    CASE url \in {U_shop, U_shop_norm} -> <<"shopify.com">>
      [] url = U_long -> <<"acme.com">>
      [] OTHER -> <<>>

\* HttpUrl validation: the normalised URL, or "invalid" (ValidationError)
HttpUrl(url) ==
    CASE url \in {U_shop, U_shop_norm} -> U_shop_norm
      [] OTHER -> <<"invalid">>

----------------------------------------------------------------------------
(* HTMLProcessor, MetadataExtractor *)

\* HTMLProcessor.strip_html: the text outside the tags
RECURSIVE StripTags(_, _)
StripTags(s, inTag) ==
    IF s = <<>> THEN <<>>
    ELSE IF Head(s) = "<" THEN StripTags(Tail(s), TRUE)
    ELSE IF Head(s) = ">" THEN StripTags(Tail(s), FALSE)
    ELSE IF inTag THEN StripTags(Tail(s), TRUE)
    ELSE <<Head(s)>> \o StripTags(Tail(s), FALSE)
strip_html(html) ==
    LET h == StripTags(html.head, FALSE)
        t == StripTags(html.tail, FALSE)
    IN  IF html.fill = 0 THEN Txt(h) ELSE [head |-> h, fill |-> html.fill, tail |-> t]

S_unknown == <<"u","n","k","n","o","w","n">>

extract_sender_domain(email_address) ==
    LET parts == split(email_address, "@")
    IN  IF Len(parts) >= 2 THEN lower(parts[2]) ELSE S_unknown

\* MetadataExtractor.extract_metadata: the URLs and the footer found in the
\* message are those the input carries.
extract_metadata(email) ==
    [ sender_domain |-> extract_sender_domain(email.from_email),
      footer_text |-> email.footer,
      urls |-> email.urls ]

----------------------------------------------------------------------------
(* EmailProcessor, stages 1 to 3 (app/services/email_processor.py) *)

S_ellipsis == <<".",".",".">>

_strip_html_content(email_input, raised) ==
    IF raised
    THEN IF NoText(email_input.text_content) THEN EmptyText ELSE email_input.text_content
    ELSE LET clean_text ==
                 IF ~NoText(email_input.html_content)
                 THEN strip_html(email_input.html_content)
                 ELSE IF NoText(email_input.text_content) THEN EmptyText
                 ELSE email_input.text_content
         IN  IF TLen(clean_text) > max_email_length
             THEN TCat(TTake(clean_text, max_email_length), S_ellipsis)
             ELSE clean_text

\* Variant with a fault: a failed anonymization leaves no text
AnonymizeOrNothing(text, raised) ==
    IF raised THEN EmptyText ELSE anonymize_text(text)

_anonymize_pii(text, raised) ==
    IF raised THEN text ELSE anonymize_text(text)

_extract_metadata(email_input, raised) ==
    IF raised
    THEN [ sender_domain |-> extract_sender_domain(email_input.from_email),
           footer_text |-> EmptyText,
           urls |-> <<>> ]
    ELSE extract_metadata(email_input)

_extract_user_data(text, raised) ==
    IF raised THEN NoData ELSE extract_pii_data(text)

----------------------------------------------------------------------------
(* EmailClassificationChain.classify_email (app/llm/chains.py) *)

N_Unknown == <<"U","n","k","n","o","w","n">>
N_UnknownCompany == <<"U","n","k","n","o","w","n"," ","C","o","m","p","a","n","y">>
N_ServiceProvider == <<"S","e","r","v","i","c","e"," ","P","r","o","v","i","d","e","r">>
N_PersonalContact == <<"P","e","r","s","o","n","a","l"," ","C","o","n","t","a","c","t">>
N_Shopify == <<"S","h","o","p","i","f","y">>
D_dpo == <<"d","p","o","@","s","h","o","p","i","f","y",".","c","o","m">>

BusinessEntity(name, website, dpo_email) ==
    [ name |-> name, website |-> website, dpo_email |-> dpo_email,
      industry |-> None, location |-> None ]

EmptyLists == [ email |-> <<>>, phone_number |-> <<>>, credit_card_number |-> <<>> ]

\* The responses of the FakeListLLM of _create_mock_model, parsed
mock_responses ==
    << [ email_category |-> "marketing",
         business_entity |-> BusinessEntity(N_UnknownCompany, None, None),
         data |-> EmptyLists, confidence_score |-> 5000 ],
       [ email_category |-> "transactional",
         business_entity |-> BusinessEntity(N_ServiceProvider, None, None),
         data |-> EmptyLists, confidence_score |-> 6000 ],
       [ email_category |-> "personal",
         business_entity |-> BusinessEntity(N_PersonalContact, None, None),
         data |-> EmptyLists, confidence_score |-> 7000 ] >>

\* FakeListLLM: the index of the next response after one call
NextMockIdx(i) == IF i < Len(mock_responses) - 1 THEN i + 1 ELSE 0

\* Answers of a real provider that pass the output parser
\* (EmailClassificationResult: a category, a valid entity, 0 <= confidence <= 1)
ProviderAnswers ==
    { [ email_category |-> "marketing",
        business_entity |-> BusinessEntity(N_Shopify, HttpUrl(U_shop), None),
        data |-> [EmptyLists EXCEPT !.email = << D_dpo >>], confidence_score |-> 9500 ],
      [ email_category |-> "transactional",
        business_entity |-> BusinessEntity(N_Shopify, None, None),
        data |-> EmptyLists, confidence_score |-> 8500 ],
      [ email_category |-> "survey",
        business_entity |-> BusinessEntity(N_Shopify, HttpUrl(U_shop), D_dpo),
        data |-> EmptyLists, confidence_score |-> 10000 ] }

ProcessedEmail(category, entity, data, confidence, metadata) ==
    [ email_category |-> category, business_entity |-> entity, data |-> data,
      confidence_score |-> confidence, metadata |-> metadata, processed_at |-> "None" ]

\* Variant with a fault: the first label of the domain is taken
CompanyNameFromFirstLabel(metadata) ==
    LET domain_parts == split(metadata.sender_domain, ".")
    IN  IF Len(domain_parts) >= 2 THEN capitalize(domain_parts[1]) ELSE N_UnknownCompany

_extract_company_name_heuristic(metadata) ==
    LET domain_parts == split(metadata.sender_domain, ".")
    IN  IF Len(domain_parts) >= 2
        THEN capitalize(domain_parts[Len(domain_parts) - 1])
        ELSE N_UnknownCompany

\* The ultimate fallback of _create_fallback_result
StaticResult(metadata) ==
    ProcessedEmail("personal", BusinessEntity(N_Unknown, None, None), NoData, 1000, metadata)

\* Variant with a fault: building the heuristic result always fails
FallbackAlwaysStatic(email_content, metadata) ==
    StaticResult(metadata)

_create_fallback_result(email_content, metadata) ==
    LET category == _heuristic_classification(Flat(email_content))
        name == _extract_company_name_heuristic(metadata)
        website == IF metadata.urls # <<>> THEN HttpUrl(metadata.urls[1]) ELSE None
    IN  IF website = <<"invalid">>     \* BusinessEntity(...) raises ValidationError
        THEN StaticResult(metadata)
        ELSE ProcessedEmail(category, BusinessEntity(name, website, None), NoData, 3000, metadata)

\* answer: what the chain's single invoke yields: a parsed
\* EmailClassificationResult, or "raise" for a provider error or an output
\* the parser rejects.
classify_email(email_content, metadata, answer) ==
    IF answer = [raise |-> TRUE]
    THEN _create_fallback_result(email_content, metadata)
    ELSE ProcessedEmail(answer.email_category, answer.business_entity, answer.data,
                        answer.confidence_score, metadata)

----------------------------------------------------------------------------
(* VectorStoreService (app/database/vector_store.py) *)

\* The combined text, kept as its parts: "\n".join(parts)
_create_embedding_text(email_content, metadata) ==
    [ content |-> email_content,
      domain |-> metadata.sender_domain,
      footer |-> metadata.footer_text,
      url_domains |-> { netloc(metadata.urls[i]) : i \in 1..Len(metadata.urls) } \ { <<>> } ]

\* The entry collection.add receives (its id is a fresh uuid4: the entry's
\* position in the collection)
\* Variant with a fault: industry and location are not stored
AddWithoutIndustry(email_content, metadata, email_category, business_entity, confidence_score) ==
    [ document |-> _create_embedding_text(email_content, metadata),
      metadata |->
        [ sender_domain |-> metadata.sender_domain,
          email_category |-> email_category,
          business_name |-> business_entity.name,
          business_website |-> business_entity.website,
          business_industry |-> None,
          business_location |-> None,
          dpo_email |-> business_entity.dpo_email,
          confidence_score |-> confidence_score,
          urls_count |-> Len(metadata.urls),
          has_footer |-> ~NoText(metadata.footer_text) ] ]

add_email_embedding(email_content, metadata, email_category, business_entity, confidence_score) ==
    [ document |-> _create_embedding_text(email_content, metadata),
      metadata |->
        [ sender_domain |-> metadata.sender_domain,
          email_category |-> email_category,
          business_name |-> business_entity.name,
          business_website |-> business_entity.website,
          business_industry |-> business_entity.industry,
          business_location |-> business_entity.location,
          dpo_email |-> business_entity.dpo_email,
          confidence_score |-> confidence_score,
          urls_count |-> Len(metadata.urls),
          has_footer |-> ~NoText(metadata.footer_text) ] ]

----------------------------------------------------------------------------
(* SimilarityMatcher.find_best_match and the accessors *)

NoMatch == [none |-> TRUE]

\* Variant with a fault: the first scored match, whatever its confidence
FirstScored(scored) == scored[1]

\* max(scored_matches, key=confidence_score): the first of the largest
BestOf(scored) ==
    LET best == CHOOSE i \in 1..Len(scored) :
                    /\ \A j \in 1..Len(scored) :
                          scored[j].confidence_score <= scored[i].confidence_score
                    /\ \A j \in 1..(i - 1) :
                          scored[j].confidence_score < scored[i].confidence_score
    IN  scored[best]

\* candidates: the list search_similar_emails returned ([] when it failed)
find_best_match(candidates, metadata) ==
    IF candidates = <<>> THEN NoMatch
    ELSE BestOf([i \in 1..Len(candidates) |->
                    _calculate_confidence_score(candidates[i], metadata.sender_domain)])

\* dict.get(key, default)
Get(d, key, default) == IF key \in DOMAIN d THEN d[key] ELSE default

Categories == {"marketing", "transactional", "survey", "personal", "customer_support"}

\* EmailStr validation: one "@" between a local part and a dotted domain
EmailStr(e) ==
    LET parts == split(e, "@")
    IN  IF Len(parts) = 2 /\ parts[1] # <<>> /\ contains(parts[2], <<".">>)
        THEN e ELSE <<"invalid">>

\* Variant with a fault: the stored fields are taken as they are
EntityAsStored(vector_match) ==
    LET metadata == vector_match.metadata
    IN  [ name |-> Get(metadata, "business_name", None),
          website |-> Get(metadata, "business_website", None),
          dpo_email |-> Get(metadata, "dpo_email", None),
          industry |-> Get(metadata, "business_industry", None),
          location |-> Get(metadata, "business_location", None) ]

\* BusinessEntity(...) raises ValidationError on a name that is not a str, a
\* website that is not a URL or a dpo_email that is not an address
extract_business_entity_from_match(vector_match) ==
    LET metadata == vector_match.metadata
        name == Get(metadata, "business_name", N_Unknown)
        website == Get(metadata, "business_website", None)
        dpo_email == Get(metadata, "dpo_email", None)
    IN  IF \/ name = None
           \/ website # None /\ HttpUrl(website) = <<"invalid">>
           \/ dpo_email # None /\ EmailStr(dpo_email) = <<"invalid">>
        THEN BusinessEntity(N_Unknown, None, None)
        ELSE [ name |-> name,
               website |-> IF website = None THEN None ELSE HttpUrl(website),
               dpo_email |-> Get(metadata, "dpo_email", None),
               industry |-> Get(metadata, "business_industry", None),
               location |-> Get(metadata, "business_location", None) ]

\* Variant with a fault: the category is read under another key
CategoryUnderWrongKey(vector_match) ==
    LET category_str == Get(vector_match.metadata, "category", "personal")
    IN  IF category_str \in Categories THEN category_str ELSE "personal"

get_email_category_from_match(vector_match) ==
    LET category_str == Get(vector_match.metadata, "email_category", "personal")
    IN  IF category_str \in Categories THEN category_str ELSE "personal"

----------------------------------------------------------------------------
(* EmailProcessor, stages 5 to 8 *)

_process_confident_match(text, metadata, vector_match, pii_raised) ==
    ProcessedEmail(get_email_category_from_match(vector_match),
                   extract_business_entity_from_match(vector_match),
                   _extract_user_data(text, pii_raised),
                   vector_match.confidence_score,
                   metadata)

\* Variant with a fault: the data field of the chain's result is kept
LLMKeepsProviderData(text, metadata, answer, pii_raised) ==
    classify_email(text, metadata, answer)

_process_llm_classification(text, metadata, answer, pii_raised) ==
    [ classify_email(text, metadata, answer) EXCEPT
        !.data = _extract_user_data(text, pii_raised) ]

\* Variant with a fault: the scraper's answer is dropped
EnhanceNothing(processed_email, scraped) == processed_email

\* scraped: what privacy_scraper._run returned, parsed: success and dpo_email,
\* or "raise" when the call or the parsing failed
_enhance_business_entity(processed_email, scraped) ==
    IF scraped # [raise |-> TRUE] /\ scraped.success /\ ~Falsy(scraped.dpo_email)
    THEN [processed_email EXCEPT !.business_entity.dpo_email = scraped.dpo_email]
    ELSE processed_email

\* Variant with a fault: the scraper is asked whenever there is a website
ScrapeWheneverWebsite(processed_email) ==
    ~Falsy(processed_email.business_entity.website)

\* "not dpo_email and website"
NeedsScrape(processed_email) ==
    /\ Falsy(processed_email.business_entity.dpo_email)
    /\ ~Falsy(processed_email.business_entity.website)

----------------------------------------------------------------------------
(* Inputs of the heuristic classifier *)

MaxWords == 2

Fragments ==
    { <<"U","n","s","u","b","s","c","r","i","b","e">>, <<"i","n","v","o","i","c","e">>, <<"S","U","R","V","E","Y">>, <<"h","e","l","p">>,
      <<"h","e","l","l","o"," ">>, <<"c","o","r","p","o","r","a","t","e">>, <<"p","a","y">>, <<"m","e","n","t">> }

RECURSIVE Concat(_)
Concat(ws) == IF ws = <<>> THEN <<>> ELSE Head(ws) \o Concat(Tail(ws))

HTexts == { Concat(ws) : ws \in UNION {[1..n -> Fragments] : n \in 0..MaxWords} }

----------------------------------------------------------------------------
(* Inputs of the LLM model manager *)

ProviderSettings == { P_openai, P_gemini, P_ollama, <<"O","p","e","n","A","I">>, <<"a","z","u","r","e">> }

Configs ==
    [ llm_provider : ProviderSettings,
      openai_api_key : BOOLEAN,
      gemini_api_key : BOOLEAN,
      GEMINI_AVAILABLE : BOOLEAN,
      ctor : [ openai : 0..Len(OpenAINames),
               gemini : 0..Len(GeminiNames),
               ollama : 0..Len(OllamaNames) ] ]

GetModelArgs == ModelNames \cup {"claude"}

----------------------------------------------------------------------------
(* Inputs of the pipeline *)

MaxRuns == 2

E_shop ==
    [ from_email |-> <<"m","@","s","h","o","p","i","f","y",".","c","o","m">>,
      html_content |-> EmptyText,
      text_content |-> Txt(<<"s","a","l","e"," ","7">>),
      urls |-> << U_shop >>,
      footer |-> EmptyText ]

E_acme ==
    [ from_email |-> <<"n","@","m","a","i","l",".","a","c","m","e",".","c","o","m">>,
      html_content |-> [ head |-> <<"<","p",">","o","r","d","e","r"," ","4","2">>, fill |-> max_email_length, tail |-> <<" ","b","y","e","<","/","p",">">> ],
      text_content |-> Txt(<<"o","r","d","e","r"," ","4","2">>),
      urls |-> << U_long >>,
      footer |-> Txt(<<"c","a","l","l"," ","4","2">>) ]

Emails == { E_shop, E_acme }

\* What can go wrong in one run: at most one of the calls the pipeline guards
Faults == { "none", "html", "pii", "metadata", "search", "userdata", "store" }

\* The model registered under 'primary': of a provider, or the mock
LLMKinds == { "ChatOpenAI", "FakeListLLM" }
EmbeddingKinds == { "OpenAIEmbeddings", "FakeEmbeddings" }

\* Distances of a stored document that differs from the query
OtherDistances == { 5, 100 }

\* What privacy_scraper._run can return, parsed
ScrapeOutcomes ==
    { [success |-> TRUE, dpo_email |-> D_dpo],
      [success |-> FALSE, dpo_email |-> None],
      [raise |-> TRUE] }

\* FakeEmbeddings draws a fresh random vector for every text: every stored
\* entry is far from every query.
MockDistance == 250

----------------------------------------------------------------------------
(* Values of the variables a specification does not drive *)

MIdle == [kind |-> "none"]
NoConfig == [none |-> TRUE]
NotAsked == [none |-> TRUE]
NoRun == [none |-> TRUE]
NoResult == [none |-> TRUE]
NoMetadata == [none |-> TRUE]
NoService == [embeddings |-> "unset"]

----------------------------------------------------------------------------
(* The matcher's functions applied to one query domain and one candidate *)

MatcherInit ==
    /\ mq \in MDomains /\ mc \in MDomains /\ msim = 0 /\ mout = MIdle
    /\ htext = <<>> /\ hout = "none"
    /\ icfg = NoConfig /\ ipc = "off" /\ itodo = <<>> /\ imodels = NoModels
    /\ iattempts = <<>> /\ igot = NotAsked
    /\ llm = "none" /\ emb = "none" /\ mockIdx = 0 /\ index = <<>> /\ runs = 0
    /\ phase = "off" /\ cur = NoRun /\ prev = NoRun
    /\ eenv = NoConfig /\ epc = "off" /\ etodo = <<>> /\ eself = NoService /\ eattempts = <<>>
    /\ bstore = "off" /\ bquery = NoMetadata /\ bcands = <<>> /\ bout = NotAsked
    /\ tpc = "off" /\ tretries = 0 /\ thistory = <<>> /\ tprocessed = 0 /\ tstored = 0
    /\ cmeta = NoMetadata /\ centity = NotAsked /\ ccategory = "none"
    /\ dcontent = EmptyText /\ dresponse = NotAsked /\ dout = NotAsked
    /\ fcontent = EmptyText /\ fmeta = NoMetadata /\ fout = NotAsked
    /\ kenv = NoConfig /\ kpc = "off" /\ kself = NoService
    /\ wcoll = {} /\ wissued = {} /\ wpc = <<>> /\ wdoc = <<>> /\ wadded = 0 /\ wsize0 = 0
    /\ semail = NoRun /\ sraised = FALSE /\ sclean = NotAsked
    /\ rentity = NotAsked /\ rcategory = "none" /\ rentry = NotAsked /\ rback = NotAsked

\* _calculate_confidence_score and is_confident_match on one candidate
MScore ==
    /\ mout.kind = "none"
    /\ \E d \in Distances :
        LET candidate == SearchMatch("doc", [sender_domain |-> mc], d)
            match == _calculate_confidence_score(candidate, mq)
        IN  /\ msim' = candidate.similarity
            /\ mout' = [kind |-> "score", match |-> match,
                        confident |-> is_confident_match(match)]
    /\ UNCHANGED <<mq, mc, hvars, ivars, pvars, avars>>

\* _are_domains_similar and _calculate_domain_weight, both ways round
MSimilar ==
    /\ mout.kind = "none"
    /\ mq # None /\ mc # None
    /\ mout' = [kind |-> "similar",
                ab |-> _are_domains_similar(mq, mc),
                ba |-> _are_domains_similar(mc, mq),
                wab |-> _calculate_domain_weight(mq, mc),
                wba |-> _calculate_domain_weight(mc, mq)]
    /\ UNCHANGED <<mq, mc, msim, hvars, ivars, pvars, avars>>

MatcherNext == MScore \/ MSimilar

SpecMatcher == MatcherInit /\ [][MatcherNext]_vars

----------------------------------------------------------------------------
(* The heuristic classifier applied to one text *)

HeuristicInit ==
    /\ htext \in HTexts /\ hout = "none"
    /\ mq = None /\ mc = None /\ msim = 0 /\ mout = MIdle
    /\ icfg = NoConfig /\ ipc = "off" /\ itodo = <<>> /\ imodels = NoModels
    /\ iattempts = <<>> /\ igot = NotAsked
    /\ llm = "none" /\ emb = "none" /\ mockIdx = 0 /\ index = <<>> /\ runs = 0
    /\ phase = "off" /\ cur = NoRun /\ prev = NoRun
    /\ eenv = NoConfig /\ epc = "off" /\ etodo = <<>> /\ eself = NoService /\ eattempts = <<>>
    /\ bstore = "off" /\ bquery = NoMetadata /\ bcands = <<>> /\ bout = NotAsked
    /\ tpc = "off" /\ tretries = 0 /\ thistory = <<>> /\ tprocessed = 0 /\ tstored = 0
    /\ cmeta = NoMetadata /\ centity = NotAsked /\ ccategory = "none"
    /\ dcontent = EmptyText /\ dresponse = NotAsked /\ dout = NotAsked
    /\ fcontent = EmptyText /\ fmeta = NoMetadata /\ fout = NotAsked
    /\ kenv = NoConfig /\ kpc = "off" /\ kself = NoService
    /\ wcoll = {} /\ wissued = {} /\ wpc = <<>> /\ wdoc = <<>> /\ wadded = 0 /\ wsize0 = 0
    /\ semail = NoRun /\ sraised = FALSE /\ sclean = NotAsked
    /\ rentity = NotAsked /\ rcategory = "none" /\ rentry = NotAsked /\ rback = NotAsked

HClassify ==
    /\ hout = "none"
    /\ hout' = _heuristic_classification(htext)
    /\ UNCHANGED <<htext, mvars, ivars, pvars, avars>>

HeuristicNext == HClassify

SpecHeuristic == HeuristicInit /\ [][HeuristicNext]_vars

----------------------------------------------------------------------------
(* LLMModelManager._initialize_models, step by step, then get_model *)

ManagerInit ==
    /\ icfg \in Configs /\ ipc = "primary" /\ itodo = <<>> /\ imodels = NoModels
    /\ iattempts = <<>> /\ igot = NotAsked
    /\ mq = None /\ mc = None /\ msim = 0 /\ mout = MIdle
    /\ htext = <<>> /\ hout = "none"
    /\ llm = "none" /\ emb = "none" /\ mockIdx = 0 /\ index = <<>> /\ runs = 0
    /\ phase = "off" /\ cur = NoRun /\ prev = NoRun
    /\ eenv = NoConfig /\ epc = "off" /\ etodo = <<>> /\ eself = NoService /\ eattempts = <<>>
    /\ bstore = "off" /\ bquery = NoMetadata /\ bcands = <<>> /\ bout = NotAsked
    /\ tpc = "off" /\ tretries = 0 /\ thistory = <<>> /\ tprocessed = 0 /\ tstored = 0
    /\ cmeta = NoMetadata /\ centity = NotAsked /\ ccategory = "none"
    /\ dcontent = EmptyText /\ dresponse = NotAsked /\ dout = NotAsked
    /\ fcontent = EmptyText /\ fmeta = NoMetadata /\ fout = NotAsked
    /\ kenv = NoConfig /\ kpc = "off" /\ kself = NoService
    /\ wcoll = {} /\ wissued = {} /\ wpc = <<>> /\ wdoc = <<>> /\ wadded = 0 /\ wsize0 = 0
    /\ semail = NoRun /\ sraised = FALSE /\ sclean = NotAsked
    /\ rentity = NotAsked /\ rcategory = "none" /\ rentry = NotAsked /\ rback = NotAsked

\* Variant with a fault: the fallbacks in the opposite order
FallbackReversed == << P_ollama, P_gemini, P_openai >>

fallback_providers == << P_openai, P_gemini, P_ollama >>

\* list.remove(x) when x is in the list
Remove(list, x) ==
    LET keep == {i \in 1..Len(list) : list[i] # x}
        F[k \in 0..Len(list)] ==
            IF k = 0 THEN <<>>
            ELSE IF k \in keep THEN Append(F[k - 1], list[k]) ELSE F[k - 1]
    IN  F[Len(list)]

InitializeProvider(provider, models, cfg) ==
    CASE provider = P_openai -> _initialize_openai_models(models, cfg)
      [] provider = P_gemini -> _initialize_gemini_models(models, cfg)
      [] provider = P_ollama -> _initialize_ollama_models(models, cfg)
      [] OTHER -> [models |-> models, raised |-> TRUE]     \* ValueError: unknown provider

KnownProvider(provider) == provider \in {P_openai, P_gemini, P_ollama}

\* try: the primary provider
ITryPrimary ==
    /\ ipc = "primary"
    /\ LET provider == lower(icfg.llm_provider)
           r == InitializeProvider(provider, imodels, icfg)
       IN  /\ imodels' = r.models
           /\ iattempts' = IF KnownProvider(provider) THEN <<provider>> ELSE <<>>
           /\ IF r.raised
              THEN /\ ipc' = "fallback"
                   /\ itodo' = Remove(fallback_providers, provider)
              ELSE /\ ipc' = "done"
                   /\ itodo' = <<>>
    /\ UNCHANGED <<icfg, igot, mvars, hvars, pvars, avars>>

\* one iteration of "for fallback_provider in fallback_providers"
ITryFallback ==
    /\ ipc = "fallback" /\ itodo # <<>>
    /\ LET fallback_provider == Head(itodo)
           attempted ==
               \/ fallback_provider = P_openai /\ icfg.openai_api_key
               \/ fallback_provider = P_gemini /\ icfg.gemini_api_key
               \/ fallback_provider = P_ollama
           r == IF attempted THEN InitializeProvider(fallback_provider, imodels, icfg)
                ELSE [models |-> imodels, raised |-> FALSE]
       IN  /\ imodels' = r.models
           /\ iattempts' = IF attempted THEN Append(iattempts, fallback_provider)
                           ELSE iattempts
           /\ IF attempted /\ ~r.raised
              THEN ipc' = "done" /\ itodo' = <<>>
              ELSE ipc' = "fallback" /\ itodo' = Tail(itodo)
    /\ UNCHANGED <<icfg, igot, mvars, hvars, pvars, avars>>

\* after the loop: all providers failed
ICreateMock ==
    /\ ipc = "fallback" /\ itodo = <<>>
    /\ imodels' = _create_mock_model(imodels)
    /\ ipc' = "done"
    /\ UNCHANGED <<icfg, itodo, iattempts, igot, mvars, hvars, pvars, avars>>

IGetModel ==
    /\ ipc = "done" /\ igot = NotAsked
    /\ \E model_name \in GetModelArgs :
          igot' = [model_name |-> model_name, model |-> get_model(imodels, model_name)]
    /\ UNCHANGED <<icfg, ipc, itodo, imodels, iattempts, mvars, hvars, pvars, avars>>

ManagerNext == ITryPrimary \/ ITryFallback \/ ICreateMock \/ IGetModel

SpecManager == ManagerInit /\ [][ManagerNext]_vars

----------------------------------------------------------------------------
(* EmailProcessor.process_email, stage by stage *)

NoAnswer == [none |-> TRUE]
Raise == [raise |-> TRUE]

PipelineInit ==
    /\ llm \in LLMKinds /\ emb \in EmbeddingKinds /\ mockIdx = 0 /\ index = <<>>
    /\ runs = 0 /\ phase = "idle" /\ cur = NoRun /\ prev = NoRun
    /\ mq = None /\ mc = None /\ msim = 0 /\ mout = MIdle
    /\ htext = <<>> /\ hout = "none"
    /\ icfg = NoConfig /\ ipc = "off" /\ itodo = <<>> /\ imodels = NoModels
    /\ iattempts = <<>> /\ igot = NotAsked
    /\ eenv = NoConfig /\ epc = "off" /\ etodo = <<>> /\ eself = NoService /\ eattempts = <<>>
    /\ bstore = "off" /\ bquery = NoMetadata /\ bcands = <<>> /\ bout = NotAsked
    /\ tpc = "off" /\ tretries = 0 /\ thistory = <<>> /\ tprocessed = 0 /\ tstored = 0
    /\ cmeta = NoMetadata /\ centity = NotAsked /\ ccategory = "none"
    /\ dcontent = EmptyText /\ dresponse = NotAsked /\ dout = NotAsked
    /\ fcontent = EmptyText /\ fmeta = NoMetadata /\ fout = NotAsked
    /\ kenv = NoConfig /\ kpc = "off" /\ kself = NoService
    /\ wcoll = {} /\ wissued = {} /\ wpc = <<>> /\ wdoc = <<>> /\ wadded = 0 /\ wsize0 = 0
    /\ semail = NoRun /\ sraised = FALSE /\ sclean = NotAsked
    /\ rentity = NotAsked /\ rcategory = "none" /\ rentry = NotAsked /\ rback = NotAsked

\* What is kept of a finished run
Summary(run) ==
    [ email |-> run.email,
      email_category |-> run.result.email_category,
      business_entity |-> run.result.business_entity ]

\* Entry, then step 1: HTML stripping
NewRun(email_input, fault) ==
    [ email |-> email_input, fault |-> fault,
      clean |-> _strip_html_content(email_input, fault = "html"),
      anon |-> EmptyText, metadata |-> NoMetadata,
      candidates |-> <<>>, match |-> NoMatch, answer |-> NoAnswer,
      result |-> NoResult, provenance |-> "none", scraped |-> NotAsked,
      llmCalls |-> 0, adds |-> 0, size0 |-> Len(index) ]

PStart ==
    /\ phase \in {"idle", "returned"} /\ runs < MaxRuns
    /\ \E email_input \in Emails, fault \in Faults :
          cur' = NewRun(email_input, fault)
    /\ phase' = "stripped"
    /\ UNCHANGED <<llm, emb, mockIdx, index, runs, prev, mvars, hvars, ivars, avars>>

\* Step 2: PII anonymization
PAnonymize ==
    /\ phase = "stripped"
    /\ cur' = [cur EXCEPT !.anon = _anonymize_pii(cur.clean, cur.fault = "pii")]
    /\ phase' = "anonymized"
    /\ UNCHANGED <<llm, emb, mockIdx, index, runs, prev, mvars, hvars, ivars, avars>>

\* Step 3: metadata extraction
PMetadata ==
    /\ phase = "anonymized"
    /\ cur' = [cur EXCEPT !.metadata = _extract_metadata(cur.email, cur.fault = "metadata")]
    /\ phase' = "metadata"
    /\ UNCHANGED <<llm, emb, mockIdx, index, runs, prev, mvars, hvars, ivars, avars>>

\* The distances the collection can report for the query document
DistanceMaps(document) ==
    { dist \in [1..Len(index) -> Distances] :
        \A i \in 1..Len(index) :
            IF emb = "FakeEmbeddings" THEN dist[i] = MockDistance
            ELSE IF index[i].document = document THEN dist[i] = 0
            ELSE dist[i] \in OtherDistances }

\* The orders collection.query can return the entries in: nearest first
Orders(dist) ==
    { perm \in [1..Len(index) -> 1..Len(index)] :
        /\ \A i, j \in 1..Len(index) : i # j => perm[i] # perm[j]
        /\ \A i, j \in 1..Len(index) : i < j => dist[perm[i]] <= dist[perm[j]] }

search_similar_emails(dist, perm) ==
    [ i \in 1..Len(index) |->
        SearchMatch(index[perm[i]].document, index[perm[i]].metadata, dist[perm[i]]) ]

\* Step 4: vector similarity search (_find_vector_match)
PLookup ==
    /\ phase = "metadata"
    /\ \E dist \in DistanceMaps(_create_embedding_text(cur.anon, cur.metadata)) :
       \E perm \in Orders(dist) :
          LET candidates == IF cur.fault = "search" THEN <<>>
                            ELSE search_similar_emails(dist, perm)
          IN  cur' = [cur EXCEPT !.candidates = candidates,
                                 !.match = find_best_match(candidates, cur.metadata)]
    /\ phase' = "looked"
    /\ UNCHANGED <<llm, emb, mockIdx, index, runs, prev, mvars, hvars, ivars, avars>>

\* "vector_match and is_confident_match(vector_match)"
UseMatch(vector_match) ==
    vector_match # NoMatch /\ is_confident_match(vector_match)

\* Step 5, first branch: the confident match is reused
PUseMatch ==
    /\ phase = "looked" /\ UseMatch(cur.match)
    /\ cur' = [cur EXCEPT
                 !.result = _process_confident_match(cur.anon, cur.metadata, cur.match,
                                                     cur.fault = "userdata"),
                 !.provenance = "match"]
    /\ phase' = "classified"
    /\ UNCHANGED <<llm, emb, mockIdx, index, runs, prev, mvars, hvars, ivars, avars>>

\* What the chain's one invoke can yield
Answers ==
    IF llm = "FakeListLLM" THEN { mock_responses[mockIdx + 1] }
    ELSE ProviderAnswers \cup { Raise }

\* Variant with a fault: an exception of the user-data extraction escapes too
RaisesAlsoOnUserData(fault) == fault \in {"classify", "userdata"}

\* What makes _process_llm_classification raise: an exception of
\* classify_email; one of extract_pii_data is caught in _extract_user_data
ClassificationRaises(fault) == fault = "classify"

\* Step 5, second branch: LLM classification
PClassify ==
    /\ phase = "looked" /\ ~UseMatch(cur.match) /\ ~ClassificationRaises(cur.fault)
    /\ \E answer \in Answers :
          cur' = [cur EXCEPT
                    !.answer = answer,
                    !.result = _process_llm_classification(cur.anon, cur.metadata, answer,
                                                           cur.fault = "userdata"),
                    !.provenance = "llm",
                    !.llmCalls = @ + 1]
    /\ mockIdx' = IF llm = "FakeListLLM" THEN NextMockIdx(mockIdx) ELSE mockIdx
    /\ phase' = "classified"
    /\ UNCHANGED <<llm, emb, index, runs, prev, mvars, hvars, ivars, avars>>

\* Step 6: enhancement of the business entity
PEnhance ==
    /\ phase = "classified"
    /\ IF NeedsScrape(cur.result)
       THEN \E scraped \in ScrapeOutcomes :
               cur' = [cur EXCEPT !.result = _enhance_business_entity(cur.result, scraped),
                                  !.scraped = scraped]
       ELSE cur' = cur
    /\ phase' = "enhanced"
    /\ UNCHANGED <<llm, emb, mockIdx, index, runs, prev, mvars, hvars, ivars, avars>>

\* Variant with a fault: a result at the threshold is stored too
StoreAtThreshold(processed_email) ==
    processed_email.confidence_score >= confidence_threshold

\* "processed_email.confidence_score > settings.confidence_threshold"
ShouldStore(processed_email) ==
    processed_email.confidence_score > confidence_threshold

\* Step 7: _store_in_vector_db; a failure of add_email_embedding is absorbed
PWriteBack ==
    /\ phase = "enhanced" /\ ShouldStore(cur.result)
    /\ cur' = [cur EXCEPT !.adds = @ + 1]
    /\ index' = IF cur.fault = "store" THEN index
                ELSE Append(index,
                            add_email_embedding(cur.anon, cur.result.metadata,
                                                cur.result.email_category,
                                                cur.result.business_entity,
                                                cur.result.confidence_score))
    /\ phase' = "stored"
    /\ UNCHANGED <<llm, emb, mockIdx, runs, prev, mvars, hvars, ivars, avars>>

PSkipWriteBack ==
    /\ phase = "enhanced" /\ ~ShouldStore(cur.result)
    /\ phase' = "stored"
    /\ UNCHANGED <<llm, emb, mockIdx, index, runs, cur, prev, mvars, hvars, ivars, avars>>

\* The timestamp, then return
PReturn ==
    /\ phase = "stored"
    /\ cur' = [cur EXCEPT !.result.processed_at = "now"]
    /\ runs' = runs + 1
    /\ phase' = "returned"
    /\ UNCHANGED <<llm, emb, mockIdx, index, prev, mvars, hvars, ivars, avars>>

Next ==
    \/ PStart \/ PAnonymize \/ PMetadata \/ PLookup \/ PUseMatch \/ PClassify
    \/ PEnhance \/ PWriteBack \/ PSkipWriteBack \/ PReturn

Spec == PipelineInit /\ [][Next]_vars

----------------------------------------------------------------------------
(* process_email called again on the input of the run before, nothing failing *)

PStartAgain ==
    /\ phase \in {"idle", "returned"} /\ runs < MaxRuns
    /\ \E email_input \in Emails :
          /\ phase = "returned" => email_input = cur.email
          /\ cur' = NewRun(email_input, "none")
    /\ prev' = IF phase = "returned" THEN Summary(cur) ELSE prev
    /\ phase' = "stripped"
    /\ UNCHANGED <<llm, emb, mockIdx, index, runs, mvars, hvars, ivars, avars>>

NextTwice ==
    \/ PStartAgain \/ PAnonymize \/ PMetadata \/ PLookup \/ PUseMatch \/ PClassify
    \/ PEnhance \/ PWriteBack \/ PSkipWriteBack \/ PReturn

SpecTwice == PipelineInit /\ [][NextTwice]_vars

----------------------------------------------------------------------------
(* Properties of the matcher (SpecMatcher) *)

\* The labels a domain of MDomains is written with, whatever its case and
\* padding; a blank domain has none.
LabelsTable ==
    [ d \in PlainDomains \cup DecoratedDomains |->
        CHOOSE ls \in LabelSeqs :
            \E how \in {"plain", "upper", "padded"} : d = Decorate(join(ls), how) ]

LabelsOf(d) == IF d = <<" ">> THEN <<>> ELSE LabelsTable[d]

\* The registrable part: the last two labels
RootLabels(ls) == IF Len(ls) >= 2 THEN SubSeq(ls, Len(ls) - 1, Len(ls)) ELSE ls

\* a is b with labels put in front
SubdomainOf(a, b) ==
    /\ Len(b) >= 1 /\ Len(a) > Len(b)
    /\ SubSeq(a, Len(a) - Len(b) + 1, Len(a)) = b

SimilarLabels(a, b) ==
    \/ RootLabels(a) = RootLabels(b)
    \/ SubdomainOf(a, b)
    \/ SubdomainOf(b, a)

ExpectedWeight(q, c) ==
    IF q \in {None, <<>>} \/ c \in {None, <<>>} THEN 50
    ELSE IF LabelsOf(q) = LabelsOf(c) THEN 100
    ELSE IF SimilarLabels(LabelsOf(q), LabelsOf(c)) THEN 80
    ELSE 50

D_mail_acme_com == join(<<L_mail, L_acme, L_com>>)
D_acme_com == join(<<L_acme, L_com>>)

\* C1: for every candidate and every query domain the confidence is the
\* similarity times the domain weight, and the weight is 0.5 when a domain is
\* missing or empty, else 1.0 when the domains are equal after lower-casing and
\* trimming, else 0.8 when they are similar (mail.acme.com and acme.com are),
\* else 0.5.
C1_ConfidenceIsSimilarityTimesWeight ==
    mout.kind = "score" =>
        /\ mout.match.similarity_score = msim
        /\ mout.match.confidence_score = msim * mout.match.domain_weight
        /\ mout.match.domain_weight \in {100, 80, 50}
        /\ mout.match.domain_weight = ExpectedWeight(mq, mc)
        /\ (mq = D_mail_acme_com /\ mc = D_acme_com) => mout.match.domain_weight = 80

C1_Witness ==
    /\ mout.kind = "score"
    /\ mq = D_mail_acme_com /\ mc = D_acme_com
    /\ msim = 95 /\ mout.match.confidence_score = 7600

\* C2: is_confident_match is true exactly when the confidence is strictly
\* greater than the threshold 0.85; at the threshold itself it is false.
C2_StrictThreshold ==
    mout.kind = "score" =>
        /\ mout.confident <=> mout.match.confidence_score > 8500
        /\ mout.match.confidence_score = 8500 => ~mout.confident

C2_Witness ==
    /\ mout.kind = "score"
    /\ mout.match.confidence_score = 8500
    /\ ~mout.confident

\* C3: domain similarity is symmetric, and so is the domain weight.
C3_SimilaritySymmetric ==
    mout.kind = "similar" =>
        /\ mout.ab = mout.ba
        /\ mout.wab = mout.wba

C3_Witness ==
    /\ mout.kind = "similar"
    /\ mq = L_com /\ mc = D_acme_com
    /\ mout.ab /\ mout.ba

----------------------------------------------------------------------------
(* Properties of the heuristic classifier (SpecHeuristic) *)

\* kw occurs in text, whatever the case of the text's letters
Occurs(kw, text) ==
    \E i \in 0..(Len(text) - Len(kw)) :
        \A j \in 1..Len(kw) : LowerChar(text[i + j]) = kw[j]

Buckets ==
    << [category |-> "marketing", keywords |-> marketing_keywords],
       [category |-> "transactional", keywords |-> transactional_keywords],
       [category |-> "survey", keywords |-> survey_keywords],
       [category |-> "customer_support", keywords |-> support_keywords] >>

Hit(k, text) == \E kw \in Buckets[k].keywords : Occurs(kw, text)

FirstBucket(text) ==
    IF \E k \in 1..Len(Buckets) : Hit(k, text)
    THEN Buckets[CHOOSE k \in 1..Len(Buckets) :
                    Hit(k, text) /\ \A j \in 1..(k - 1) : ~Hit(j, text)].category
    ELSE "personal"

K_unsubscribe == <<"u","n","s","u","b","s","c","r","i","b","e">>
K_invoice == <<"i","n","v","o","i","c","e">>

\* C4: for any text the heuristic classifier returns exactly one category:
\* that of the first bucket, in the order marketing, transactional, survey,
\* customer_support, one of whose keywords occurs in the text as a substring,
\* case-insensitively, and personal when none does; a text with both
\* 'unsubscribe' and 'invoice' is marketing.
C4_FirstMatchingBucket ==
    hout # "none" =>
        /\ hout \in Categories
        /\ hout = FirstBucket(htext)
        /\ (Occurs(K_unsubscribe, htext) /\ Occurs(K_invoice, htext)) => hout = "marketing"

C4_Witness ==
    /\ hout = "marketing"
    /\ Occurs(K_unsubscribe, htext) /\ Occurs(K_invoice, htext)
    /\ ~contains(htext, K_unsubscribe)

----------------------------------------------------------------------------
(* Properties of the LLM model manager (SpecManager) *)

ModelKinds == {"ChatOpenAI", "ChatGoogleGenerativeAI", "ChatOllama", "FakeListLLM"}

\* C10: whatever the configured provider name and whichever provider
\* initializations fail, once initialization has ended a model is registered
\* under 'primary', and get_model returns a model for any name without raising.
C10_PrimaryAlwaysRegistered ==
    /\ ipc # "done" => (ENABLED ManagerNext) /\ Len(iattempts) + Len(itodo) <= 3
    /\ ipc = "done" =>
          /\ imodels["primary"] \in ModelKinds
          /\ igot # NotAsked => igot.model \in ModelKinds

C10_Witness ==
    /\ ipc = "done"
    /\ lower(icfg.llm_provider) \notin {P_openai, P_gemini, P_ollama}
    /\ imodels["primary"] = "FakeListLLM"
    /\ igot # NotAsked /\ igot.model_name = "claude" /\ igot.model = "FakeListLLM"

----------------------------------------------------------------------------
(* Properties of the pipeline (Spec, SpecTwice) *)

Finished == phase = "returned"

\* C5: in every run the vector store is asked for exactly one add when the
\* final confidence is strictly greater than the threshold and for none
\* otherwise; a 0.3 or 0.1 result never changes the index, and the index grows
\* by at most the one entry asked for.
C5_OneAddIffAboveThreshold ==
    Finished =>
        /\ cur.adds = IF cur.result.confidence_score > 8500 THEN 1 ELSE 0
        /\ cur.result.confidence_score \in {3000, 1000} => Len(index) = cur.size0
        /\ Len(index) - cur.size0 \in {0, cur.adds}
        /\ (cur.adds = 1 /\ cur.fault # "store") => Len(index) = cur.size0 + 1

C5_Witness ==
    /\ Finished /\ runs = 2
    /\ cur.result.confidence_score = 9500
    /\ cur.adds = 1 /\ cur.size0 = 1 /\ Len(index) = 2

\* A stored entry of the sender's domain that the search reports as nearly
\* identical to the message
Near(candidate) ==
    /\ candidate.metadata.sender_domain = cur.metadata.sender_domain
    /\ candidate.similarity > 85

HasNear == \E i \in 1..Len(cur.candidates) : Near(cur.candidates[i])

ReusedFromNear ==
    /\ cur.provenance = "match" /\ cur.llmCalls = 0
    /\ cur.match.domain_weight = 100
    /\ cur.match.confidence_score > 8500
    /\ \E i \in 1..Len(cur.candidates) :
          Near(cur.candidates[i]) /\ cur.match.metadata = cur.candidates[i].metadata
    /\ cur.result.email_category = cur.match.metadata.email_category
    /\ cur.result.business_entity.name = cur.match.metadata.business_name
    /\ cur.result.business_entity.website = cur.match.metadata.business_website
    /\ cur.result.business_entity.industry = cur.match.metadata.business_industry
    /\ cur.result.business_entity.location = cur.match.metadata.business_location

\* C6 (as the code has it): when the search reports a stored entry of the
\* sender's domain as nearly identical to the message, the run reuses such an
\* entry with domain weight 1.0 and a confidence above the threshold, never
\* calls the LLM classifier, and returns the entry's category and its business
\* entity's name, website, industry and location; the DPO email is the entry's,
\* except that a missing one may have been filled in by the enhancement step
\* when the entity has a website.
C6_NearEntryIsReused ==
    (Finished /\ HasNear) =>
        /\ ReusedFromNear
        /\ \/ cur.result.business_entity.dpo_email = cur.match.metadata.dpo_email
           \/ /\ Falsy(cur.match.metadata.dpo_email)
              /\ ~Falsy(cur.match.metadata.business_website)

C6_Witness ==
    /\ Finished /\ HasNear
    /\ cur.candidates[1].distance = 5
    /\ cur.result.email_category = "survey"
    /\ cur.result.business_entity.dpo_email = D_dpo

\* C6 as stated: the run returns the stored business entity, DPO email included.
C6_ReturnsStoredEntity ==
    (Finished /\ HasNear) =>
        /\ ReusedFromNear
        /\ cur.result.business_entity.dpo_email = cur.match.metadata.dpo_email

\* C7 as stated: with the mock LLM and the mock embeddings in place (every
\* provider failed at initialization) the result's confidence is 0.3 or 0.1.
C7_MockResultIsFallback ==
    (Finished /\ llm = "FakeListLLM" /\ emb = "FakeEmbeddings") =>
        cur.result.confidence_score \in {3000, 1000}

\* C8 as stated, for the mock provider: the second of two runs on the same
\* input returns the category and the business entity of the first.
C8_MockRepeatGivesSameResult ==
    (Finished /\ prev # NoRun /\ llm = "FakeListLLM") =>
        /\ cur.result.email_category = prev.email_category
        /\ cur.result.business_entity = prev.business_entity

Classified == phase \in {"classified", "enhanced", "stored", "returned"}

\* C9: classify_email returns a result whatever the provider does and calls
\* the provider once: when the call or the parsing fails the result is the
\* heuristic one with confidence 0.3, and when building that fails (the first
\* URL is no valid website) it is personal, 'Unknown', confidence 0.1.
C9_ClassifyNeverRaises ==
    (Classified /\ cur.provenance = "llm") =>
        /\ cur.llmCalls = 1
        /\ cur.result.email_category \in Categories
        /\ cur.answer # Raise =>
              /\ cur.result.confidence_score = cur.answer.confidence_score
              /\ cur.result.email_category = cur.answer.email_category
        /\ cur.answer = Raise =>
              IF cur.metadata.urls # <<>> /\ HttpUrl(cur.metadata.urls[1]) = <<"invalid">>
              THEN /\ cur.result.confidence_score = 1000
                   /\ cur.result.email_category = "personal"
                   /\ cur.result.business_entity.name = N_Unknown
              ELSE /\ cur.result.confidence_score = 3000
                   /\ cur.result.email_category = FirstBucket(Flat(cur.anon))

C9_Witness ==
    /\ Finished /\ cur.provenance = "llm" /\ cur.answer = Raise
    /\ cur.result.confidence_score = 1000
    /\ cur.result.business_entity.name = N_Unknown

----------------------------------------------------------------------------
(* VectorStoreService._initialize_embeddings, step by step.  It runs after  *)
(* the module-level LLMModelManager() has been constructed, and reads the   *)
(* same settings (icfg); the import flags and the constructors that fail    *)
(* are its own (eenv).                                                      *)

EmbeddingEnvs ==
    [ GEMINI_AVAILABLE : BOOLEAN,
      OLLAMA_AVAILABLE : BOOLEAN,
      fails : SUBSET {P_openai, P_gemini, P_ollama} ]

\* OpenAIEmbeddings(...), GoogleGenerativeAIEmbeddings(...), OllamaEmbeddings(...)
EmbeddingsOf(provider) ==
    CASE provider = P_openai -> "OpenAIEmbeddings"
      [] provider = P_gemini -> "GoogleGenerativeAIEmbeddings"
      [] provider = P_ollama -> "OllamaEmbeddings"

Construct(self, provider, env) ==
    IF provider \in env.fails
    THEN [self |-> self, raised |-> TRUE]
    ELSE [self |-> [self EXCEPT !.embeddings = EmbeddingsOf(provider)], raised |-> FALSE]

\* the conditions of the if/elif chain of the first try block
primary_available(provider, cfg, env) ==
    \/ provider = P_openai /\ cfg.openai_api_key
    \/ provider = P_gemini /\ env.GEMINI_AVAILABLE /\ cfg.gemini_api_key
    \/ provider = P_ollama /\ env.OLLAMA_AVAILABLE

\* the first try block
primary_embeddings(self, provider, cfg, env) ==
    IF primary_available(provider, cfg, env) THEN Construct(self, provider, env)
    ELSE [self |-> self, raised |-> TRUE]       \* ValueError: not available

\* the second component of the pairs of fallback_providers
fallback_available(fallback_provider, cfg, env) ==
    CASE fallback_provider = P_openai -> cfg.openai_api_key
      [] fallback_provider = P_gemini -> cfg.gemini_api_key /\ env.GEMINI_AVAILABLE
      [] fallback_provider = P_ollama -> env.OLLAMA_AVAILABLE

\* a mock that leaves the service without embeddings
MockEmbeddingsUnset(self) == self

_create_mock_embeddings(self) == [self EXCEPT !.embeddings = "FakeEmbeddings"]

EmbeddingsInit ==
    /\ icfg \in {c \in Configs :
                    /\ c.ctor.openai \in {0, Len(OpenAINames)}
                    /\ c.ctor.gemini \in {0, Len(GeminiNames)}
                    /\ c.ctor.ollama \in {0, Len(OllamaNames)}}
    /\ ipc = "primary" /\ itodo = <<>> /\ imodels = NoModels
    /\ iattempts = <<>> /\ igot = NotAsked
    /\ eenv \in EmbeddingEnvs /\ epc = "primary" /\ etodo = <<>>
    /\ eself = NoService /\ eattempts = <<>>
    /\ mq = None /\ mc = None /\ msim = 0 /\ mout = MIdle
    /\ htext = <<>> /\ hout = "none"
    /\ llm = "none" /\ emb = "none" /\ mockIdx = 0 /\ index = <<>> /\ runs = 0
    /\ phase = "off" /\ cur = NoRun /\ prev = NoRun
    /\ bstore = "off" /\ bquery = NoMetadata /\ bcands = <<>> /\ bout = NotAsked
    /\ tpc = "off" /\ tretries = 0 /\ thistory = <<>> /\ tprocessed = 0 /\ tstored = 0
    /\ cmeta = NoMetadata /\ centity = NotAsked /\ ccategory = "none"
    /\ dcontent = EmptyText /\ dresponse = NotAsked /\ dout = NotAsked
    /\ fcontent = EmptyText /\ fmeta = NoMetadata /\ fout = NotAsked
    /\ kenv = NoConfig /\ kpc = "off" /\ kself = NoService
    /\ wcoll = {} /\ wissued = {} /\ wpc = <<>> /\ wdoc = <<>> /\ wadded = 0 /\ wsize0 = 0
    /\ semail = NoRun /\ sraised = FALSE /\ sclean = NotAsked
    /\ rentity = NotAsked /\ rcategory = "none" /\ rentry = NotAsked /\ rback = NotAsked

\* try: the primary provider
ETryPrimary ==
    /\ ipc = "done" /\ epc = "primary"
    /\ LET provider == lower(icfg.llm_provider)
           r == primary_embeddings(eself, provider, icfg, eenv)
       IN  /\ eself' = r.self
           /\ eattempts' = IF primary_available(provider, icfg, eenv) THEN <<provider>>
                           ELSE <<>>
           /\ IF r.raised
              THEN epc' = "fallback" /\ etodo' = fallback_providers
              ELSE epc' = "done" /\ etodo' = <<>>
    /\ UNCHANGED <<eenv, mvars, hvars, ivars, pvars, bvars, tvars, cvars, dvars, fvars, kvars, wvars, svars, rvars>>

\* one iteration of "for fallback_provider, available in fallback_providers"
ETryFallback ==
    /\ epc = "fallback" /\ etodo # <<>>
    /\ LET provider == lower(icfg.llm_provider)
           fallback_provider == Head(etodo)
           attempted == /\ fallback_provider # provider
                        /\ fallback_available(fallback_provider, icfg, eenv)
           r == IF attempted THEN Construct(eself, fallback_provider, eenv)
                ELSE [self |-> eself, raised |-> FALSE]
       IN  /\ eself' = r.self
           /\ eattempts' = IF attempted THEN Append(eattempts, fallback_provider)
                           ELSE eattempts
           /\ IF attempted /\ ~r.raised
              THEN epc' = "done" /\ etodo' = <<>>
              ELSE epc' = "fallback" /\ etodo' = Tail(etodo)
    /\ UNCHANGED <<eenv, mvars, hvars, ivars, pvars, bvars, tvars, cvars, dvars, fvars, kvars, wvars, svars, rvars>>

\* after the loop: all providers failed
ECreateMock ==
    /\ epc = "fallback" /\ etodo = <<>>
    /\ eself' = _create_mock_embeddings(eself)
    /\ epc' = "done"
    /\ UNCHANGED <<eenv, etodo, eattempts, mvars, hvars, ivars, pvars, bvars, tvars, cvars, dvars, fvars, kvars, wvars, svars, rvars>>

EmbeddingsNext ==
    ITryPrimary \/ ITryFallback \/ ICreateMock \/ ETryPrimary \/ ETryFallback \/ ECreateMock

SpecEmbeddings == EmbeddingsInit /\ [][EmbeddingsNext]_vars

----------------------------------------------------------------------------
(* Properties of the embedding fallback chain (SpecEmbeddings) *)

EmbeddingProviderKinds ==
    {"OpenAIEmbeddings", "GoogleGenerativeAIEmbeddings", "OllamaEmbeddings", "FakeEmbeddings"}

\* the provider can be tried with these settings and import flags
Available(p) ==
    \/ p = P_openai /\ icfg.openai_api_key
    \/ p = P_gemini /\ icfg.gemini_api_key /\ eenv.GEMINI_AVAILABLE
    \/ p = P_ollama /\ eenv.OLLAMA_AVAILABLE

\* ... and its constructor does not fail
Usable(p) == Available(p) /\ p \notin eenv.fails

\* primary first, then the remaining providers in their fixed order
TryOrder ==
    LET primary == lower(icfg.llm_provider)
    IN  <<primary>> \o SelectSeq(<<P_openai, P_gemini, P_ollama>>, LAMBDA p : p # primary)

\* the position in TryOrder of the first usable provider, 0 if there is none
FirstUsable ==
    LET ok == {i \in 1..Len(TryOrder) : Usable(TryOrder[i])}
    IN  IF ok = {} THEN 0 ELSE CHOOSE i \in ok : \A j \in ok : i <= j

ExpectedEmbeddings ==
    IF FirstUsable = 0 THEN "FakeEmbeddings"
    ELSE CASE TryOrder[FirstUsable] = P_openai -> "OpenAIEmbeddings"
           [] TryOrder[FirstUsable] = P_gemini -> "GoogleGenerativeAIEmbeddings"
           [] TryOrder[FirstUsable] = P_ollama -> "OllamaEmbeddings"

\* the available providers in order, up to and including the first usable one
ExpectedAttempts ==
    LET upto == IF FirstUsable = 0 THEN TryOrder ELSE SubSeq(TryOrder, 1, FirstUsable)
    IN  SelectSeq(upto, Available)

\* C11: the embedding chain tries the primary provider, then the remaining
\* available providers, then a mock; it never stops before an embedding
\* provider is set, whichever constructors fail, and the provider it ends with
\* is determined by the settings, the import flags and the failing embedding
\* constructors alone, whatever the model the LLM chain registered.
C11_EmbeddingsAlwaysSet ==
    /\ (ipc = "done" /\ epc # "done") =>
          ENABLED (ETryPrimary \/ ETryFallback \/ ECreateMock)
    /\ epc = "done" =>
          /\ eself.embeddings \in EmbeddingProviderKinds
          /\ eself.embeddings = ExpectedEmbeddings
          /\ eattempts = ExpectedAttempts

C11_Witness ==
    /\ epc = "done"
    /\ imodels["primary"] = "ChatOpenAI"
    /\ eself.embeddings = "FakeEmbeddings"
    /\ Len(eattempts) = 3

----------------------------------------------------------------------------
(* SimilarityMatcher.find_best_match on one query, over the states of the   *)
(* vector store and the candidate lists a search can return                 *)

MaxCandidates == 2

D_mail_com == join(<<L_mail, L_com>>)

QueryDomains == {D_acme_com, D_mail_acme_com, D_mail_com}

\* What collection.query can return for one stored entry
StoredCandidates ==
    { SearchMatch("doc", [sender_domain |-> d], dist) :
        d \in QueryDomains, dist \in Distances }

CandidateLists == UNION {[1..n -> StoredCandidates] : n \in 0..MaxCandidates}

\* self.vector_store is None when the constructor raised; a search that
\* raises inside search_similar_emails returns []
StoreStates == {"available", "unavailable", "failing"}

BestMatchInit ==
    /\ bstore \in StoreStates
    /\ bquery \in {[sender_domain |-> d] : d \in QueryDomains}
    /\ bcands \in CandidateLists
    /\ bout = NotAsked
    /\ mq = None /\ mc = None /\ msim = 0 /\ mout = MIdle
    /\ htext = <<>> /\ hout = "none"
    /\ icfg = NoConfig /\ ipc = "off" /\ itodo = <<>> /\ imodels = NoModels
    /\ iattempts = <<>> /\ igot = NotAsked
    /\ llm = "none" /\ emb = "none" /\ mockIdx = 0 /\ index = <<>> /\ runs = 0
    /\ phase = "off" /\ cur = NoRun /\ prev = NoRun
    /\ eenv = NoConfig /\ epc = "off" /\ etodo = <<>> /\ eself = NoService /\ eattempts = <<>>
    /\ tpc = "off" /\ tretries = 0 /\ thistory = <<>> /\ tprocessed = 0 /\ tstored = 0
    /\ cmeta = NoMetadata /\ centity = NotAsked /\ ccategory = "none"
    /\ dcontent = EmptyText /\ dresponse = NotAsked /\ dout = NotAsked
    /\ fcontent = EmptyText /\ fmeta = NoMetadata /\ fout = NotAsked
    /\ kenv = NoConfig /\ kpc = "off" /\ kself = NoService
    /\ wcoll = {} /\ wissued = {} /\ wpc = <<>> /\ wdoc = <<>> /\ wadded = 0 /\ wsize0 = 0
    /\ semail = NoRun /\ sraised = FALSE /\ sclean = NotAsked
    /\ rentity = NotAsked /\ rcategory = "none" /\ rentry = NotAsked /\ rback = NotAsked

\* find_best_match when self.vector_store is None
BFindUnavailable ==
    /\ bout = NotAsked /\ bstore = "unavailable"
    /\ bout' = [raised |-> FALSE, searched |-> FALSE, match |-> NoMatch]
    /\ UNCHANGED <<bstore, bquery, bcands, mvars, hvars, ivars, pvars, evars, tvars, cvars, dvars, fvars, kvars, wvars, svars, rvars>>

\* find_best_match with a vector store: the search, then the scoring
BFind ==
    /\ bout = NotAsked /\ bstore # "unavailable"
    /\ LET candidates == IF bstore = "failing" THEN <<>> ELSE bcands
       IN  bout' = [raised |-> FALSE, searched |-> TRUE,
                    match |-> find_best_match(candidates, bquery)]
    /\ UNCHANGED <<bstore, bquery, bcands, mvars, hvars, ivars, pvars, evars, tvars, cvars, dvars, fvars, kvars, wvars, svars, rvars>>

BestMatchNext == BFindUnavailable \/ BFind

SpecBestMatch == BestMatchInit /\ [][BestMatchNext]_vars

----------------------------------------------------------------------------
(* Properties of find_best_match (SpecBestMatch) *)

\* the confidence a candidate is to be given for the query
ExpectedConfidence(candidate) ==
    (100 - candidate.distance)
        * ExpectedWeight(bquery.sender_domain, candidate.metadata.sender_domain)

----------------------------------------------------------------------------
(* Properties of the pipeline: the extracted user data (Spec) *)

HasResult == phase \in {"classified", "enhanced", "stored", "returned"}

T_42 == <<"4","2">>

----------------------------------------------------------------------------
(* Properties of the pipeline: failures of stages 1 to 3 (Spec) *)

D_shopify_com == <<"s","h","o","p","i","f","y",".","c","o","m">>
T_order_42 == <<"o","r","d","e","r"," ","4","2">>

PastStripping == phase \notin {"idle", "off"}
PastAnonymization == phase \notin {"idle", "off", "stripped"}
PastMetadata == phase \notin {"idle", "off", "stripped", "anonymized"}

\* C14: a failure of HTML stripping, of anonymization or of metadata
\* extraction does not end the run, which goes on to the next stage; the failed stage
\* yields the raw plain-text body (empty when there is none), the text it was
\* given, and metadata with the sender's domain, no footer and no URLs.
C14_EarlyStagesHaveSubstitutes ==
    /\ phase = "stripped" => ENABLED PAnonymize
    /\ PastMetadata => cur.metadata # NoMetadata
    /\ Finished => cur.result # NoResult
    /\ (PastStripping /\ cur.fault = "html") =>
          /\ cur.clean = IF NoText(cur.email.text_content) THEN EmptyText
                         ELSE cur.email.text_content
          /\ cur.email = E_acme => cur.clean = Txt(T_order_42)
    /\ (PastAnonymization /\ cur.fault = "pii") => cur.anon = cur.clean
    /\ (PastMetadata /\ cur.fault = "metadata") =>
          /\ cur.metadata.urls = <<>>
          /\ NoText(cur.metadata.footer_text)
          /\ cur.email = E_acme => cur.metadata.sender_domain = D_mail_acme_com
          /\ cur.email = E_shop => cur.metadata.sender_domain = D_shopify_com

C14_Witness ==
    /\ Finished /\ cur.fault = "pii" /\ cur.email = E_acme
    /\ cur.anon = cur.clean /\ contains(cur.anon.head, T_42)

----------------------------------------------------------------------------
(* Properties of the pipeline: the enhancement stage (Spec) *)

Missing(x) == x = None \/ x = <<>>

\* C15: the enhancement step asks the privacy scraper only for a result whose
\* business entity has no DPO email and has a website; it leaves category,
\* confidence, name, website, data and metadata as they were and can only
\* fill in a DPO email that was missing; when the scraper was not asked, when
\* it failed and when the scrape was unsuccessful the result is unchanged.
C15_EnhancementOnlyFillsDpoEmail ==
    [][ (phase = "classified" /\ phase' = "enhanced") =>
          /\ cur'.scraped # NotAsked =>
                /\ Missing(cur.result.business_entity.dpo_email)
                /\ ~Missing(cur.result.business_entity.website)
          /\ cur'.result = [cur.result EXCEPT
                              !.business_entity.dpo_email =
                                  cur'.result.business_entity.dpo_email]
          /\ ~Missing(cur.result.business_entity.dpo_email) =>
                cur'.result = cur.result
          /\ ( \/ cur'.scraped = NotAsked
               \/ cur'.scraped = Raise
               \/ ~cur'.scraped.success ) => cur'.result = cur.result
          /\ cur'.result.business_entity.dpo_email
                \in {cur.result.business_entity.dpo_email, D_dpo}
      ]_vars

C15_Witness ==
    /\ Finished /\ cur.provenance = "llm" /\ cur.answer # Raise
    /\ cur.answer.business_entity.dpo_email = None
    /\ cur.scraped # NotAsked /\ cur.scraped # Raise /\ cur.scraped.success
    /\ cur.result.business_entity.dpo_email = D_dpo
    /\ cur.result.business_entity.website = cur.answer.business_entity.website

----------------------------------------------------------------------------
(* process_email where the classification call itself can raise: the        *)
(* exception is logged and raised again by _process_llm_classification and  *)
(* by process_email                                                         *)

RaisingFaults == Faults \cup {"classify"}

PStartRaising ==
    /\ phase \in {"idle", "returned", "raised"} /\ runs < MaxRuns
    /\ \E fault \in RaisingFaults :
          cur' = NewRun(E_shop, fault)
    /\ phase' = "stripped"
    /\ UNCHANGED <<llm, emb, mockIdx, index, runs, prev, mvars, hvars, ivars, avars>>

\* Step 5, second branch, "except Exception: raise", then the same in
\* process_email
PClassifyRaises ==
    /\ phase = "looked" /\ ~UseMatch(cur.match) /\ ClassificationRaises(cur.fault)
    /\ cur' = [cur EXCEPT !.provenance = "llm", !.llmCalls = @ + 1]
    /\ runs' = runs + 1
    /\ phase' = "raised"
    /\ UNCHANGED <<llm, emb, mockIdx, index, prev, mvars, hvars, ivars, avars>>

NextRaising ==
    \/ PStartRaising \/ PAnonymize \/ PMetadata \/ PLookup \/ PUseMatch \/ PClassify
    \/ PClassifyRaises \/ PEnhance \/ PWriteBack \/ PSkipWriteBack \/ PReturn

SpecRaising == PipelineInit /\ [][NextRaising]_vars

----------------------------------------------------------------------------
(* Properties of the pipeline: what process_email raises (SpecRaising) *)

\* C16: a run of process_email ends by raising only where the classification
\* call of the LLM branch raised; a run in which stripping, anonymization,
\* metadata extraction, the vector search, the user-data extraction, the
\* scraper or the write-back failed returns a result with a category, a
\* business entity and a confidence between 0 and 1.
C16_RaisesOnlyFromClassification ==
    /\ phase = "raised" =>
          /\ cur.fault = "classify"
          /\ cur.provenance = "llm" /\ cur.llmCalls = 1
          /\ cur.result = NoResult
    /\ (HasResult /\ cur.fault # "classify") => cur.provenance \in {"match", "llm"}
    /\ Finished =>
          /\ cur.result # NoResult
          /\ cur.result.email_category \in Categories
          /\ cur.result.confidence_score \in 0..10000
          /\ cur.result.processed_at = "now"

C16_Witness ==
    /\ Finished /\ runs = 2
    /\ cur.fault = "store" /\ cur.adds = 1 /\ Len(index) = cur.size0
    /\ cur.scraped = Raise
    /\ cur.result.confidence_score = 9500

C16_WitnessRaised ==
    phase = "raised" /\ runs = 2 /\ Len(index) = 1

----------------------------------------------------------------------------
(* process_email_task (app/tasks.py): one message, its executions and       *)
(* retries                                                                  *)

\* self.retry(exc=exc, countdown=60, max_retries=3)
max_retries == 3

\* How one execution of the task body can go: load_email_from_file raises,
\* EmailInput(**email_data) raises, process_email raises, store_result
\* raises (after put_item failed), or all of it succeeds
TaskFailures == {"load", "validate", "process", "store"}

\* process_email has been called in the execution
Processed(outcome) == outcome \in {"process", "store", "ok"}

TaskInit ==
    /\ tpc = "queued" /\ tretries = 0 /\ thistory = <<>> /\ tprocessed = 0 /\ tstored = 0
    /\ mq = None /\ mc = None /\ msim = 0 /\ mout = MIdle
    /\ htext = <<>> /\ hout = "none"
    /\ icfg = NoConfig /\ ipc = "off" /\ itodo = <<>> /\ imodels = NoModels
    /\ iattempts = <<>> /\ igot = NotAsked
    /\ llm = "none" /\ emb = "none" /\ mockIdx = 0 /\ index = <<>> /\ runs = 0
    /\ phase = "off" /\ cur = NoRun /\ prev = NoRun
    /\ eenv = NoConfig /\ epc = "off" /\ etodo = <<>> /\ eself = NoService /\ eattempts = <<>>
    /\ bstore = "off" /\ bquery = NoMetadata /\ bcands = <<>> /\ bout = NotAsked
    /\ cmeta = NoMetadata /\ centity = NotAsked /\ ccategory = "none"
    /\ dcontent = EmptyText /\ dresponse = NotAsked /\ dout = NotAsked
    /\ fcontent = EmptyText /\ fmeta = NoMetadata /\ fout = NotAsked
    /\ kenv = NoConfig /\ kpc = "off" /\ kself = NoService
    /\ wcoll = {} /\ wissued = {} /\ wpc = <<>> /\ wdoc = <<>> /\ wadded = 0 /\ wsize0 = 0
    /\ semail = NoRun /\ sraised = FALSE /\ sclean = NotAsked
    /\ rentity = NotAsked /\ rcategory = "none" /\ rentry = NotAsked /\ rback = NotAsked

\* An execution that reaches "return {...}"
TSucceed ==
    /\ tpc \in {"queued", "retry"}
    /\ thistory' = Append(thistory, "ok")
    /\ tprocessed' = tprocessed + 1
    /\ tstored' = tstored + 1
    /\ tpc' = "success"
    /\ UNCHANGED <<tretries, mvars, hvars, ivars, pvars, evars, bvars, cvars, dvars, fvars, kvars, wvars, svars, rvars>>

\* An execution that ends in "except Exception as exc" with retries left:
\* self.retry raises Retry and the task is executed again
TFailAndRetry ==
    /\ tpc \in {"queued", "retry"} /\ tretries < max_retries
    /\ \E outcome \in TaskFailures :
          /\ thistory' = Append(thistory, outcome)
          /\ tprocessed' = IF Processed(outcome) THEN tprocessed + 1 ELSE tprocessed
    /\ tretries' = tretries + 1
    /\ tpc' = "retry"
    /\ UNCHANGED <<tstored, mvars, hvars, ivars, pvars, evars, bvars, cvars, dvars, fvars, kvars, wvars, svars, rvars>>

\* ... with no retry left: self.retry raises exc and the task has failed
TFailForGood ==
    /\ tpc \in {"queued", "retry"} /\ tretries >= max_retries
    /\ \E outcome \in TaskFailures :
          /\ thistory' = Append(thistory, outcome)
          /\ tprocessed' = IF Processed(outcome) THEN tprocessed + 1 ELSE tprocessed
    /\ tpc' = "failure"
    /\ UNCHANGED <<tretries, tstored, mvars, hvars, ivars, pvars, evars, bvars, cvars, dvars, fvars, kvars, wvars, svars, rvars>>

TaskNext == TSucceed \/ TFailAndRetry \/ TFailForGood

SpecTask == TaskInit /\ [][TaskNext]_vars

----------------------------------------------------------------------------
(* Properties of the task (SpecTask) *)

\* C17: a failure of store_result after process_email has returned does not
\* make the task fail and is not followed by another execution, so that
\* process_email is not run again for the message.
C17_StoreFailureIsNotFatal ==
    /\ \A i \in 1..(Len(thistory) - 1) : thistory[i] # "store"
    /\ tpc = "failure" => thistory[Len(thistory)] # "store"

\* What the code does: every store failure is followed by a retry that runs
\* process_email again, or, with no retry left, by the failure of the task.
StoreFailureRetriesOrFails ==
    \A i \in 1..Len(thistory) :
        thistory[i] = "store" =>
            \/ i < Len(thistory)
            \/ tpc \in {"retry", "failure"}

StoreFailureSeen ==
    /\ tpc = "success" /\ thistory = <<"store", "ok">>
    /\ tprocessed = 2 /\ tstored = 1

----------------------------------------------------------------------------
(* Properties of the pipeline: what the write-back stores (Spec) *)

\* C18: a run whose result was reused from a confident vector match asks for
\* no add and leaves the index as it found it; entries come only from runs
\* whose result the classification chain produced.
C18_ReusedMatchAddsNothing ==
    (Finished /\ cur.provenance = "match") =>
        /\ cur.adds = 0
        /\ Len(index) = cur.size0

\* What the code does: a reused match is confident, so its confidence is
\* above the threshold and step 7 asks for an add in every such run.
ReusedMatchIsStoredAgain ==
    (Finished /\ cur.provenance = "match") =>
        /\ cur.adds = 1
        /\ cur.fault # "store" => Len(index) = cur.size0 + 1

ReusedMatchSeen ==
    /\ Finished /\ cur.provenance = "match" /\ cur.fault = "none"
    /\ cur.llmCalls = 0 /\ Len(index) = 2

\* A text the anonymizer would leave as it is: nothing in it is left to mask
Anonymized(t) == anonymize_text(t) = t

\* C19: the documents of the index hold anonymized text only: neither the
\* body nor the footer appended from the metadata of any stored document
\* contains text that anonymization would still mask, also when the
\* anonymization of the run failed.
C19_StoredTextIsAnonymized ==
    \A i \in 1..Len(index) :
        /\ Anonymized(index[i].document.content)
        /\ Anonymized(index[i].document.footer)

\* What the code does: the body is stored as step 2 returned it (the raw text
\* when anonymization failed), and the footer as metadata extraction found it
\* in the text before anonymization.
StoredRawBodySeen ==
    /\ Finished /\ runs = 1 /\ cur.fault = "pii" /\ Len(index) = 1
    /\ index[1].document.content = cur.clean
    /\ ~Anonymized(index[1].document.content)

StoredRawFooterSeen ==
    /\ Finished /\ runs = 1 /\ cur.fault = "none" /\ Len(index) = 1
    /\ Anonymized(index[1].document.content)
    /\ index[1].document.footer = cur.email.footer
    /\ ~Anonymized(index[1].document.footer)

----------------------------------------------------------------------------
(* The accessors of SimilarityMatcher on one stored metadata map *)

D_notAnAddress == <<"d","p","o">>

\* Values a stored map can hold under the keys the accessors read
StoredValues ==
    [ email_category : {"marketing", "survey", "bogus"},
      business_name : {N_Shopify, None},
      business_website : {None, U_shop_norm, U_long},
      dpo_email : {None, D_dpo, D_notAnAddress} ]

StoredKeys == {"email_category", "business_name", "business_website", "dpo_email"}

\* Every map with some of the keys
MetadataMaps ==
    { [k \in K |-> full[k]] : full \in StoredValues, K \in SUBSET StoredKeys }

AccessorsInit ==
    /\ cmeta \in MetadataMaps /\ centity = NotAsked /\ ccategory = "none"
    /\ mq = None /\ mc = None /\ msim = 0 /\ mout = MIdle
    /\ htext = <<>> /\ hout = "none"
    /\ icfg = NoConfig /\ ipc = "off" /\ itodo = <<>> /\ imodels = NoModels
    /\ iattempts = <<>> /\ igot = NotAsked
    /\ llm = "none" /\ emb = "none" /\ mockIdx = 0 /\ index = <<>> /\ runs = 0
    /\ phase = "off" /\ cur = NoRun /\ prev = NoRun
    /\ eenv = NoConfig /\ epc = "off" /\ etodo = <<>> /\ eself = NoService /\ eattempts = <<>>
    /\ bstore = "off" /\ bquery = NoMetadata /\ bcands = <<>> /\ bout = NotAsked
    /\ tpc = "off" /\ tretries = 0 /\ thistory = <<>> /\ tprocessed = 0 /\ tstored = 0
    /\ dcontent = EmptyText /\ dresponse = NotAsked /\ dout = NotAsked
    /\ fcontent = EmptyText /\ fmeta = NoMetadata /\ fout = NotAsked
    /\ kenv = NoConfig /\ kpc = "off" /\ kself = NoService
    /\ wcoll = {} /\ wissued = {} /\ wpc = <<>> /\ wdoc = <<>> /\ wadded = 0 /\ wsize0 = 0
    /\ semail = NoRun /\ sraised = FALSE /\ sclean = NotAsked
    /\ rentity = NotAsked /\ rcategory = "none" /\ rentry = NotAsked /\ rback = NotAsked

\* The VectorMatch the accessors are given
MatchOf(metadata) ==
    [ similarity_score |-> 100, domain_weight |-> 100, confidence_score |-> 10000,
      metadata |-> metadata ]

AExtractEntity ==
    /\ centity = NotAsked
    /\ centity' = extract_business_entity_from_match(MatchOf(cmeta))
    /\ UNCHANGED <<cmeta, ccategory, mvars, hvars, ivars, pvars, evars, bvars, tvars, dvars, fvars, kvars, wvars, svars, rvars>>

AGetCategory ==
    /\ ccategory = "none"
    /\ ccategory' = get_email_category_from_match(MatchOf(cmeta))
    /\ UNCHANGED <<cmeta, centity, mvars, hvars, ivars, pvars, evars, bvars, tvars, dvars, fvars, kvars, wvars, svars, rvars>>

AccessorsNext == AExtractEntity \/ AGetCategory

SpecAccessors == AccessorsInit /\ [][AccessorsNext]_vars

----------------------------------------------------------------------------
(* Properties of the accessors (SpecAccessors) *)

Has(key) == key \in DOMAIN cmeta

\* a stored field BusinessEntity does not accept
InvalidField ==
    \/ Has("business_name") /\ cmeta["business_name"] = None
    \/ Has("business_website") /\ cmeta["business_website"] = U_long
    \/ Has("dpo_email") /\ cmeta["dpo_email"] = D_notAnAddress

UnknownEntity ==
    [ name |-> N_Unknown, website |-> None, dpo_email |-> None,
      industry |-> None, location |-> None ]

\* C20: for every stored metadata map both accessors return a value: the
\* category is the stored one when it is a category and personal when it is
\* missing or is none; the entity is the one named 'Unknown' with no other
\* field when a stored field is invalid, carries the name 'Unknown' when the
\* name is missing, and otherwise has the stored name, website and DPO email.
C20_AccessorsAlwaysAnswer ==
    /\ ccategory # "none" =>
          /\ ccategory \in {"marketing", "transactional", "survey", "personal",
                            "customer_support"}
          /\ ~Has("email_category") => ccategory = "personal"
          /\ (Has("email_category") /\ cmeta["email_category"] = "bogus") =>
                ccategory = "personal"
          /\ (Has("email_category") /\ cmeta["email_category"] # "bogus") =>
                ccategory = cmeta["email_category"]
    /\ centity # NotAsked =>
          /\ centity.name \in {N_Unknown, N_Shopify}
          /\ InvalidField => centity = UnknownEntity
          /\ ~Has("business_name") => centity.name = N_Unknown
          /\ ~InvalidField =>
                /\ Has("business_name") => centity.name = cmeta["business_name"]
                /\ centity.website =
                      IF Has("business_website") THEN cmeta["business_website"] ELSE None
                /\ centity.dpo_email =
                      IF Has("dpo_email") THEN cmeta["dpo_email"] ELSE None

C20_Witness ==
    /\ centity = UnknownEntity /\ ccategory = "personal"
    /\ Has("business_name") /\ cmeta["business_name"] = N_Shopify
    /\ Has("dpo_email") /\ cmeta["dpo_email"] = D_notAnAddress
    /\ Has("email_category") /\ cmeta["email_category"] = "bogus"

----------------------------------------------------------------------------
(* DPOExtractionChain.extract_dpo_email (app/llm/chains.py) on one policy   *)
(* text and one provider response                                           *)

\* "if len(content) > 8000: content = content[:8000] + '...'"
dpo_content_cap == 8000

truncate_policy(content) ==
    IF TLen(content) > dpo_content_cap
    THEN TCat(TTake(content, dpo_content_cap), <<".",".",".">>)
    ELSE content

Letters == {UpperAlpha[i] : i \in 1..26} \cup {LowerAlpha[i] : i \in 1..26}
LocalChars == Letters \cup Digits \cup {".", "_", "%", "+", "-"}
DomainChars == Letters \cup Digits \cup {".", "-"}

\* re.match(r'^[a-zA-Z0-9._%+-]+@[a-zA-Z0-9.-]+\.[a-zA-Z]{2,}$', s)
email_pattern(s) ==
    \E at \in 1..Len(s) : \E dot \in (at + 1)..Len(s) :
        /\ s[at] = "@" /\ s[dot] = "."
        /\ at > 1 /\ \A i \in 1..(at - 1) : s[i] \in LocalChars
        /\ dot > at + 1 /\ \A i \in (at + 1)..(dot - 1) : s[i] \in DomainChars
        /\ Len(s) >= dot + 2 /\ \A i \in (dot + 1)..Len(s) : s[i] \in Letters

\* Variant with a fault: every answer but "none" counts as an address
ValidUnlessNone(email) ==
    ~(email = <<>> \/ lower(email) = <<"n","o","n","e">>)

_is_valid_email(email) ==
    IF email = <<>> \/ lower(email) = <<"n","o","n","e">> THEN FALSE
    ELSE email_pattern(strip(email))

\* response: what "await self.extraction_chain.ainvoke(...)" gives: a message
\* with .content, a plain str (the FakeListLLM of the mock provider, which
\* has no .content), or an exception
extract_dpo_email(content, response) ==
    LET sent == truncate_policy(content)
    IN  IF "content" \notin DOMAIN response
        THEN [sent |-> sent, out |-> None]          \* except Exception: return None
        ELSE LET extracted_text == strip(response.content)
             IN  [sent |-> sent,
                  out |-> IF _is_valid_email(extracted_text) THEN extracted_text ELSE None]

\* Policy texts around the cap; the last one is a text the scraper has
\* already truncated
T_dpo_colon == <<"d","p","o",":"," ">>
T_end == <<" ","e","n","d">>

PolicyTexts ==
    { EmptyText, Txt(T_dpo_colon) }
    \cup { [head |-> T_dpo_colon, fill |-> n, tail |-> T_end] :
              n \in {dpo_content_cap - 10, dpo_content_cap - 9, dpo_content_cap - 8,
                     dpo_content_cap - 5, dpo_content_cap + 1000} }
    \cup { [head |-> T_dpo_colon, fill |-> dpo_content_cap - 5, tail |-> <<".",".",".">>] }

D_padded == <<" ">> \o D_dpo \o <<"\n">>
D_plus == <<"a",".","b","+","c","@","x","-","y",".","c","o">>
D_noTld == <<"d","p","o","@","s","h","o","p","i","f","y">>
D_shortTld == <<"d","p","o","@","s","h","o","p",".","c">>
D_twoAts == <<"a","@","b","@","c",".","c","o">>
D_sentence == <<"m","a","i","l"," ">> \o D_dpo

ProviderResponses ==
    { [content |-> c] :
        c \in { <<>>, <<" ">>, <<"N","o","n","e">>, <<"n","o","n","e">>, <<"N","O","N","E">>,
                <<" ","N","o","n","e"," ">>,
                D_dpo, D_padded, D_plus, D_noTld, D_shortTld, D_twoAts, D_sentence } }
    \cup { [str |-> <<"N","o","n","e">>], [raise |-> TRUE] }

DpoInit ==
    /\ dcontent \in PolicyTexts /\ dresponse \in ProviderResponses /\ dout = NotAsked
    /\ mq = None /\ mc = None /\ msim = 0 /\ mout = MIdle
    /\ htext = <<>> /\ hout = "none"
    /\ icfg = NoConfig /\ ipc = "off" /\ itodo = <<>> /\ imodels = NoModels
    /\ iattempts = <<>> /\ igot = NotAsked
    /\ llm = "none" /\ emb = "none" /\ mockIdx = 0 /\ index = <<>> /\ runs = 0
    /\ phase = "off" /\ cur = NoRun /\ prev = NoRun
    /\ eenv = NoConfig /\ epc = "off" /\ etodo = <<>> /\ eself = NoService /\ eattempts = <<>>
    /\ bstore = "off" /\ bquery = NoMetadata /\ bcands = <<>> /\ bout = NotAsked
    /\ tpc = "off" /\ tretries = 0 /\ thistory = <<>> /\ tprocessed = 0 /\ tstored = 0
    /\ cmeta = NoMetadata /\ centity = NotAsked /\ ccategory = "none"
    /\ fcontent = EmptyText /\ fmeta = NoMetadata /\ fout = NotAsked
    /\ kenv = NoConfig /\ kpc = "off" /\ kself = NoService
    /\ wcoll = {} /\ wissued = {} /\ wpc = <<>> /\ wdoc = <<>> /\ wadded = 0 /\ wsize0 = 0
    /\ semail = NoRun /\ sraised = FALSE /\ sclean = NotAsked
    /\ rentity = NotAsked /\ rcategory = "none" /\ rentry = NotAsked /\ rback = NotAsked

DExtract ==
    /\ dout = NotAsked
    /\ dout' = extract_dpo_email(dcontent, dresponse)
    /\ UNCHANGED <<dcontent, dresponse, mvars, hvars, ivars, pvars, evars, bvars, tvars, cvars, fvars, kvars, wvars, svars, rvars>>

DpoNext == DExtract

SpecDpo == DpoInit /\ [][DpoNext]_vars

----------------------------------------------------------------------------
(* Properties of the DPO extraction chain (SpecDpo) *)

\* the answers of ProviderResponses that are addresses once stripped
AddressAnswers == {D_dpo, D_padded, D_plus}

\* C21: the provider is given the policy text when it has at most 8000
\* characters and otherwise its first 8000 characters followed by "...";
\* the chain returns the stripped answer when it is an address, and none when
\* the answer is empty, is "none" in any case, is no address, or the call
\* failed.
C21_DpoAnswerIsValidated ==
    dout # NotAsked =>
        /\ TLen(dout.sent) <= 8003
        /\ TLen(dcontent) <= 8000 => dout.sent = dcontent
        /\ TLen(dcontent) > 8000 =>
              /\ TLen(dout.sent) = 8003
              /\ TTake(dout.sent, 8000) = TTake(dcontent, 8000)
              /\ dout.sent.tail = TTake(dcontent, 8000).tail \o <<".",".",".">>
        /\ dout.out \in {None, D_dpo, D_plus}
        /\ dout.out # None <=>
              ("content" \in DOMAIN dresponse /\ dresponse.content \in AddressAnswers)
        /\ ("content" \in DOMAIN dresponse /\ dresponse.content \in {D_dpo, D_padded}) =>
              dout.out = D_dpo

C21_Witness ==
    /\ dout # NotAsked /\ TLen(dcontent) = 8001 /\ TLen(dout.sent) = 8003
    /\ dresponse = [content |-> D_padded] /\ dout.out = D_dpo

----------------------------------------------------------------------------
(* EmailClassificationChain._create_fallback_result on one message          *)
(* (app/llm/chains.py), entered when the provider call or the parser fails  *)

\* Sender domains as MetadataExtractor.extract_sender_domain gives them, each
\* with the name the second-to-last label capitalizes to ("" when it is empty)
FallbackDomains ==
    << [d |-> <<"s","h","o","p","i","f","y",".","c","o","m">>, n |-> <<"S","h","o","p","i","f","y">>],
       [d |-> <<"m","a","i","l",".","s","h","o","p","i","f","y",".","c","o","m">>, n |-> <<"S","h","o","p","i","f","y">>],
       [d |-> <<"a","c","m","e",".","c","o",".","u","k">>, n |-> <<"C","o">>],
       [d |-> <<"4","2","a","c","m","e",".","i","o">>, n |-> <<"4","2","a","c","m","e">>],
       [d |-> <<".","c","o","m">>, n |-> <<>>],
       [d |-> <<"s","h","o","p","i","f","y",".">>, n |-> <<"S","h","o","p","i","f","y">>],
       [d |-> <<"l","o","c","a","l","h","o","s","t">>, n |-> <<"U","n","k","n","o","w","n"," ","C","o","m","p","a","n","y">>],
       [d |-> <<"u","n","k","n","o","w","n">>, n |-> <<"U","n","k","n","o","w","n"," ","C","o","m","p","a","n","y">>] >>

A_marketing_shopify ==
    <<"m","a","r","k","e","t","i","n","g","@","s","h","o","p","i","f","y",".","c","o","m">>

T_unsubscribe ==
    <<"U","n","s","u","b","s","c","r","i","b","e"," ","5","0","%"," ","o","f","f">>

FallbackContents ==
    { Txt(T_unsubscribe),
      Txt(<<"Y","o","u","r"," ","I","n","v","o","i","c","e">>),
      Txt(<<"h","e","l","l","o">>),
      EmptyText }

FallbackUrls == { <<>>, << U_shop >>, << U_shop, U_long >>, << U_long, U_shop >> }

FallbackMetadata ==
    { [ sender_domain |-> d, footer_text |-> EmptyText, urls |-> u ] :
        d \in { FallbackDomains[i].d : i \in 1..Len(FallbackDomains) }
              \cup { extract_sender_domain(A_marketing_shopify) },
        u \in FallbackUrls }

FallbackInit ==
    /\ fcontent \in FallbackContents /\ fmeta \in FallbackMetadata /\ fout = NotAsked
    /\ dcontent = EmptyText /\ dresponse = NotAsked /\ dout = NotAsked
    /\ mq = None /\ mc = None /\ msim = 0 /\ mout = MIdle
    /\ htext = <<>> /\ hout = "none"
    /\ icfg = NoConfig /\ ipc = "off" /\ itodo = <<>> /\ imodels = NoModels
    /\ iattempts = <<>> /\ igot = NotAsked
    /\ llm = "none" /\ emb = "none" /\ mockIdx = 0 /\ index = <<>> /\ runs = 0
    /\ phase = "off" /\ cur = NoRun /\ prev = NoRun
    /\ eenv = NoConfig /\ epc = "off" /\ etodo = <<>> /\ eself = NoService /\ eattempts = <<>>
    /\ bstore = "off" /\ bquery = NoMetadata /\ bcands = <<>> /\ bout = NotAsked
    /\ tpc = "off" /\ tretries = 0 /\ thistory = <<>> /\ tprocessed = 0 /\ tstored = 0
    /\ cmeta = NoMetadata /\ centity = NotAsked /\ ccategory = "none"
    /\ kenv = NoConfig /\ kpc = "off" /\ kself = NoService
    /\ wcoll = {} /\ wissued = {} /\ wpc = <<>> /\ wdoc = <<>> /\ wadded = 0 /\ wsize0 = 0
    /\ semail = NoRun /\ sraised = FALSE /\ sclean = NotAsked
    /\ rentity = NotAsked /\ rcategory = "none" /\ rentry = NotAsked /\ rback = NotAsked

\* classify_email when the chain's invoke raises
FClassifyFails ==
    /\ fout = NotAsked
    /\ fout' = classify_email(fcontent, fmeta, Raise)
    /\ UNCHANGED <<fcontent, fmeta, dvars, mvars, hvars, ivars, pvars, evars, bvars, tvars, cvars, kvars, wvars, svars, rvars>>

FallbackNext == FClassifyFails

SpecFallback == FallbackInit /\ [][FallbackNext]_vars

----------------------------------------------------------------------------
(* Properties of the heuristic fallback (SpecFallback) *)

NameFor(domain) ==
    LET i == CHOOSE j \in 1..Len(FallbackDomains) : FallbackDomains[j].d = domain
    IN  FallbackDomains[i].n

\* C22: the heuristic fallback result (confidence 0.3) names the business by
\* the capitalized second-to-last label of the sender domain, or "Unknown
\* Company" for a domain of fewer than two labels; its website is the first
\* URL of the metadata, or none; it is built whenever that URL is one a
\* BusinessEntity accepts; and a message from marketing@shopify.com
\* containing "Unsubscribe" is then marketing, business "Shopify".
C22_FallbackNamesTheSenderDomain ==
    fout # NotAsked =>
        /\ (fmeta.urls = <<>> \/ fmeta.urls[1] = U_shop) <=> fout.confidence_score = 3000
        /\ fout.confidence_score = 3000 =>
              /\ fout.business_entity.name = NameFor(fmeta.sender_domain)
              /\ fmeta.urls = <<>> => fout.business_entity.website = None
              /\ fmeta.urls # <<>> => fout.business_entity.website = U_shop_norm
              /\ fout.business_entity.dpo_email = None
              /\ (/\ fmeta.sender_domain = <<"s","h","o","p","i","f","y",".","c","o","m">>
                  /\ fcontent = Txt(T_unsubscribe))
                 => /\ fout.email_category = "marketing"
                    /\ fout.business_entity.name = <<"S","h","o","p","i","f","y">>

C22_Witness ==
    /\ fout # NotAsked /\ fout.confidence_score = 3000
    /\ fmeta.sender_domain = extract_sender_domain(A_marketing_shopify)
    /\ fcontent = Txt(T_unsubscribe) /\ fmeta.urls = << U_shop, U_long >>
    /\ fout.email_category = "marketing"
    /\ fout.business_entity.name = <<"S","h","o","p","i","f","y">>

----------------------------------------------------------------------------
(* EmailProcessor.__init__ / _initialize_services                           *)
(* (app/services/email_processor.py), one construction of the pipeline      *)

\* The backends at startup. chroma[k]: whether the k-th _initialize_chroma
\* of this construction reaches its collection (EmailProcessor and
\* SimilarityMatcher each construct a VectorStoreService); llm, embeddings:
\* what the provider fallbacks end in, a provider's object or the mock.
StartupEnvs ==
    [ chromadb_use_external : BOOLEAN,
      chroma : [1..2 -> BOOLEAN],
      llm : LLMKinds,
      embeddings : EmbeddingKinds ]

NoServices ==
    [ vector_store |-> "unset", similarity_matcher |-> "unset",
      llm_classifier |-> "unset", privacy_scraper |-> "unset" ]

\* VectorStoreService(): _initialize_chroma logs and re-raises, then
\* _initialize_embeddings, which ends in some embeddings object
VectorStoreService(env, k) ==
    IF env.chroma[k]
    THEN [ client |-> IF env.chromadb_use_external THEN "HttpClient" ELSE "PersistentClient",
           embeddings |-> env.embeddings ]
    ELSE Raise

\* SimilarityMatcher(): a failing VectorStoreService() leaves vector_store None
SimilarityMatcher(env) ==
    LET vs == VectorStoreService(env, 2)
    IN  [ vector_store |-> IF vs = Raise THEN [none |-> TRUE] ELSE vs ]

ConstructInit ==
    /\ kenv \in StartupEnvs /\ kpc = "local" /\ kself = NoServices
    /\ fcontent = EmptyText /\ fmeta = NoMetadata /\ fout = NotAsked
    /\ dcontent = EmptyText /\ dresponse = NotAsked /\ dout = NotAsked
    /\ mq = None /\ mc = None /\ msim = 0 /\ mout = MIdle
    /\ htext = <<>> /\ hout = "none"
    /\ icfg = NoConfig /\ ipc = "off" /\ itodo = <<>> /\ imodels = NoModels
    /\ iattempts = <<>> /\ igot = NotAsked
    /\ llm = "none" /\ emb = "none" /\ mockIdx = 0 /\ index = <<>> /\ runs = 0
    /\ phase = "off" /\ cur = NoRun /\ prev = NoRun
    /\ eenv = NoConfig /\ epc = "off" /\ etodo = <<>> /\ eself = NoService /\ eattempts = <<>>
    /\ bstore = "off" /\ bquery = NoMetadata /\ bcands = <<>> /\ bout = NotAsked
    /\ tpc = "off" /\ tretries = 0 /\ thistory = <<>> /\ tprocessed = 0 /\ tstored = 0
    /\ cmeta = NoMetadata /\ centity = NotAsked /\ ccategory = "none"
    /\ wcoll = {} /\ wissued = {} /\ wpc = <<>> /\ wdoc = <<>> /\ wadded = 0 /\ wsize0 = 0
    /\ semail = NoRun /\ sraised = FALSE /\ sclean = NotAsked
    /\ rentity = NotAsked /\ rcategory = "none" /\ rentry = NotAsked /\ rback = NotAsked

\* lines 29-31: HTMLProcessor(), PIIProcessor(), MetadataExtractor()
KLocalServices ==
    /\ kpc = "local"
    /\ kpc' = "vector_store"
    /\ UNCHANGED <<kenv, kself, fvars, dvars, mvars, hvars, ivars, pvars, evars, bvars, tvars, cvars, wvars, svars, rvars>>

\* line 32: self.vector_store = VectorStoreService(); an exception reaches
\* the except clause of _initialize_services, which logs and re-raises
KVectorStore ==
    /\ kpc = "vector_store"
    /\ LET vs == VectorStoreService(kenv, 1)
       IN  IF vs = Raise
           THEN kpc' = "raised" /\ kself' = kself
           ELSE kpc' = "similarity_matcher" /\ kself' = [kself EXCEPT !.vector_store = vs]
    /\ UNCHANGED <<kenv, fvars, dvars, mvars, hvars, ivars, pvars, evars, bvars, tvars, cvars, wvars, svars, rvars>>

\* line 33: self.similarity_matcher = SimilarityMatcher()
KSimilarityMatcher ==
    /\ kpc = "similarity_matcher"
    /\ kself' = [kself EXCEPT !.similarity_matcher = SimilarityMatcher(kenv)]
    /\ kpc' = "llm_classifier"
    /\ UNCHANGED <<kenv, fvars, dvars, mvars, hvars, ivars, pvars, evars, bvars, tvars, cvars, wvars, svars, rvars>>

\* line 34: EmailClassificationChain(): model_manager.get_model('primary')
KClassifier ==
    /\ kpc = "llm_classifier"
    /\ kself' = [kself EXCEPT !.llm_classifier = [llm |-> kenv.llm]]
    /\ kpc' = "privacy_scraper"
    /\ UNCHANGED <<kenv, fvars, dvars, mvars, hvars, ivars, pvars, evars, bvars, tvars, cvars, wvars, svars, rvars>>

\* line 35: PrivacyPolicyScraperTool(), then the constructor returns
KScraper ==
    /\ kpc = "privacy_scraper"
    /\ kself' = [kself EXCEPT !.privacy_scraper = "PrivacyPolicyScraperTool"]
    /\ kpc' = "constructed"
    /\ UNCHANGED <<kenv, fvars, dvars, mvars, hvars, ivars, pvars, evars, bvars, tvars, cvars, wvars, svars, rvars>>

ConstructNext ==
    \/ KLocalServices
    \/ KVectorStore
    \/ KSimilarityMatcher
    \/ KClassifier
    \/ KScraper

SpecConstruct == ConstructInit /\ [][ConstructNext]_vars

----------------------------------------------------------------------------
(* Properties of the construction (SpecConstruct) *)

\* C23: an initialization error of a backend never makes the construction
\* of EmailProcessor fail.
C23_ConstructionNeverFails ==
    kpc # "raised"

\* The matcher's own vector store degrades to None, the pipeline's does not
C23_MatcherDegrades ==
    kpc = "constructed" =>
        /\ kenv.chroma[1]
        /\ ~kenv.chroma[2] => kself.similarity_matcher.vector_store = [none |-> TRUE]

C23_RaisedSeen ==
    kpc = "raised" /\ ~kenv.chroma[1] /\ kself.vector_store = "unset"

----------------------------------------------------------------------------
(* Workers writing back to one collection:                                  *)
(* EmailProcessor._store_in_vector_db -> VectorStoreService.add_email_embedding *)

\* Runs of process_email in flight at once, each in a worker of its own
MaxWorkers == 3

Workers == 1..MaxWorkers

\* The values of uuid.uuid4(); no value is returned twice
UUIDs == 1..(MaxWorkers + 1)

\* Variant with a fault: the added entry replaces those of the same sender domain
CollectionAddPerDomain(collection, doc_id, entry) ==
    { e \in collection : e.entry.metadata.sender_domain # entry.metadata.sender_domain }
        \cup { [id |-> doc_id, entry |-> entry] }

\* self.collection.add(embeddings=..., documents=..., metadatas=..., ids=[doc_id])
collection_add(collection, doc_id, entry) ==
    collection \cup { [id |-> doc_id, entry |-> entry] }

\* Results a worker's run ends with, and the text it stores them with
WrittenResults ==
    { [ text |-> e.text_content,
        result |-> ProcessedEmail(a.email_category, a.business_entity, NoData,
                                  a.confidence_score, extract_metadata(e)) ] :
        e \in Emails, a \in ProviderAnswers }

EntryOf(w) ==
    add_email_embedding(w.text, w.result.metadata, w.result.email_category,
                        w.result.business_entity, w.result.confidence_score)

Idle == [none |-> TRUE]

WorkersInit ==
    /\ wsize0 \in 0..1
    /\ wcoll = IF wsize0 = 0 THEN {}
               ELSE { [id |-> 1, entry |-> EntryOf(CHOOSE w \in WrittenResults :
                                                     /\ w.text = E_shop.text_content
                                                     /\ w.result.confidence_score = 9500)] }
    /\ wissued = { e.id : e \in wcoll }
    /\ wpc = [w \in Workers |-> "idle"]
    /\ wdoc = [w \in Workers |-> Idle]
    /\ wadded = 0
    /\ fcontent = EmptyText /\ fmeta = NoMetadata /\ fout = NotAsked
    /\ dcontent = EmptyText /\ dresponse = NotAsked /\ dout = NotAsked
    /\ mq = None /\ mc = None /\ msim = 0 /\ mout = MIdle
    /\ htext = <<>> /\ hout = "none"
    /\ icfg = NoConfig /\ ipc = "off" /\ itodo = <<>> /\ imodels = NoModels
    /\ iattempts = <<>> /\ igot = NotAsked
    /\ llm = "none" /\ emb = "none" /\ mockIdx = 0 /\ index = <<>> /\ runs = 0
    /\ phase = "off" /\ cur = NoRun /\ prev = NoRun
    /\ eenv = NoConfig /\ epc = "off" /\ etodo = <<>> /\ eself = NoService /\ eattempts = <<>>
    /\ bstore = "off" /\ bquery = NoMetadata /\ bcands = <<>> /\ bout = NotAsked
    /\ tpc = "off" /\ tretries = 0 /\ thistory = <<>> /\ tprocessed = 0 /\ tstored = 0
    /\ cmeta = NoMetadata /\ centity = NotAsked /\ ccategory = "none"
    /\ kenv = NoConfig /\ kpc = "off" /\ kself = NoService
    /\ semail = NoRun /\ sraised = FALSE /\ sclean = NotAsked
    /\ rentity = NotAsked /\ rcategory = "none" /\ rentry = NotAsked /\ rback = NotAsked

\* Step 7 of a run whose result passes the gate, up to the call of
\* collection.add: the entry is built and doc_id = str(uuid.uuid4())
WPrepare(w) ==
    /\ wpc[w] = "idle"
    /\ \E r \in WrittenResults : \E doc_id \in UUIDs \ wissued :
        /\ ShouldStore(r.result)
        /\ wdoc' = [wdoc EXCEPT ![w] = [id |-> doc_id, entry |-> EntryOf(r)]]
        /\ wissued' = wissued \cup {doc_id}
    /\ wpc' = [wpc EXCEPT ![w] = "ready"]
    /\ UNCHANGED <<wcoll, wadded, wsize0, kvars, fvars, dvars, mvars, hvars, ivars, pvars, evars, bvars, tvars, cvars, svars, rvars>>

\* collection.add succeeds
WAdd(w) ==
    /\ wpc[w] = "ready"
    /\ wcoll' = collection_add(wcoll, wdoc[w].id, wdoc[w].entry)
    /\ wadded' = wadded + 1
    /\ wpc' = [wpc EXCEPT ![w] = "returned"]
    /\ wdoc' = [wdoc EXCEPT ![w] = Idle]
    /\ UNCHANGED <<wissued, wsize0, kvars, fvars, dvars, mvars, hvars, ivars, pvars, evars, bvars, tvars, cvars, svars, rvars>>

\* collection.add raises: add_email_embedding re-raises, _store_in_vector_db
\* logs the error and returns
WAddFails(w) ==
    /\ wpc[w] = "ready"
    /\ wpc' = [wpc EXCEPT ![w] = "returned"]
    /\ wdoc' = [wdoc EXCEPT ![w] = Idle]
    /\ UNCHANGED <<wcoll, wadded, wissued, wsize0, kvars, fvars, dvars, mvars, hvars, ivars, pvars, evars, bvars, tvars, cvars, svars, rvars>>

WPrepareSome == \E w \in Workers : WPrepare(w)
WAddSome == \E w \in Workers : WAdd(w)
WAddFailsSome == \E w \in Workers : WAddFails(w)

WorkersNext ==
    \/ WPrepareSome
    \/ WAddSome
    \/ WAddFailsSome

SpecWorkers == WorkersInit /\ [][WorkersNext]_vars

----------------------------------------------------------------------------
(* Properties of concurrent write-backs (SpecWorkers) *)

\* C24: under every interleaving of the workers, a successful write-back
\* adds exactly one entry, under a key the collection did not have; no entry
\* is changed or removed by any step; and after N successful write-backs the
\* collection has its initial size plus N entries, all under different keys.
C24_WriteBacksOnlyAdd ==
    [][ /\ wcoll \subseteq wcoll'
        /\ wadded' = wadded + 1 =>
              \E e \in wcoll' : /\ wcoll' \ wcoll = {e}
                                /\ e.id \notin { x.id : x \in wcoll }
        /\ wadded' = wadded => wcoll' = wcoll
        /\ Cardinality(wcoll') = wsize0 + wadded'
        /\ Cardinality({ e.id : e \in wcoll' }) = Cardinality(wcoll') ]_vars

C24_Witness ==
    /\ wadded = 3 /\ wsize0 = 1 /\ Cardinality(wcoll) = 4
    /\ \E e1 \in wcoll : \E e2 \in wcoll : e1.id # e2.id /\ e1.entry = e2.entry

----------------------------------------------------------------------------
(* Range of the matcher's scores (SpecMatcher) *)

\* C25: every candidate match has a similarity score in [0,1] and a
\* confidence in [0,1], whatever distance the vector index returned.
C25_ScoresInUnitInterval ==
    mout.kind = "score" =>
        /\ 0 <= mout.match.similarity_score /\ mout.match.similarity_score <= 100
        /\ 0 <= mout.match.confidence_score /\ mout.match.confidence_score <= 10000

\* Distances up to 1 do give scores in range
C25_InRangeUpToDistanceOne ==
    (mout.kind = "score" /\ msim >= 0) =>
        /\ mout.match.similarity_score \in 0..100
        /\ mout.match.confidence_score \in 0..10000

C25_NegativeScoreSeen ==
    /\ mout.kind = "score" /\ mout.match.similarity_score = 100 - MockDistance
    /\ mout.match.similarity_score < 0 /\ mout.match.confidence_score < 0

----------------------------------------------------------------------------
(* EmailProcessor._strip_html_content alone (stage 1), on bodies of every   *)
(* length around settings.max_email_length                                  *)

T_hi == <<"h","i"," ">>

\* Plain-text bodies of 0, 3 and max_email_length - 1 .. 2 * max_email_length characters
Stage1Texts ==
    { EmptyText, Txt(T_hi) }
    \cup { [head |-> T_hi, fill |-> n, tail |-> <<>>] :
              n \in { max_email_length - 4, max_email_length - 3, max_email_length - 2,
                      max_email_length, max_email_length + 1, 2 * max_email_length } }

\* HTML bodies: none, short, and two whose text is at and above the maximum
Stage1Htmls ==
    { EmptyText,
      Txt(<<"<","p",">","h","i","<","/","p",">">>),
      [head |-> <<"<","p",">","h","i"," ">>, fill |-> max_email_length - 3, tail |-> <<"<","/","p",">">>],
      [head |-> <<"<","p",">","h","i"," ">>, fill |-> max_email_length, tail |-> <<"<","/","p",">">>] }

\* Stripping can raise only when there is HTML to strip
Stage1Init ==
    /\ semail \in [html_content : Stage1Htmls, text_content : Stage1Texts]
    /\ sraised \in BOOLEAN
    /\ sraised => ~NoText(semail.html_content)
    /\ sclean = NotAsked
    /\ fcontent = EmptyText /\ fmeta = NoMetadata /\ fout = NotAsked
    /\ dcontent = EmptyText /\ dresponse = NotAsked /\ dout = NotAsked
    /\ mq = None /\ mc = None /\ msim = 0 /\ mout = MIdle
    /\ htext = <<>> /\ hout = "none"
    /\ icfg = NoConfig /\ ipc = "off" /\ itodo = <<>> /\ imodels = NoModels
    /\ iattempts = <<>> /\ igot = NotAsked
    /\ llm = "none" /\ emb = "none" /\ mockIdx = 0 /\ index = <<>> /\ runs = 0
    /\ phase = "off" /\ cur = NoRun /\ prev = NoRun
    /\ eenv = NoConfig /\ epc = "off" /\ etodo = <<>> /\ eself = NoService /\ eattempts = <<>>
    /\ bstore = "off" /\ bquery = NoMetadata /\ bcands = <<>> /\ bout = NotAsked
    /\ tpc = "off" /\ tretries = 0 /\ thistory = <<>> /\ tprocessed = 0 /\ tstored = 0
    /\ cmeta = NoMetadata /\ centity = NotAsked /\ ccategory = "none"
    /\ kenv = NoConfig /\ kpc = "off" /\ kself = NoService
    /\ wcoll = {} /\ wissued = {} /\ wpc = <<>> /\ wdoc = <<>> /\ wadded = 0 /\ wsize0 = 0
    /\ rentity = NotAsked /\ rcategory = "none" /\ rentry = NotAsked /\ rback = NotAsked

SStrip ==
    /\ sclean = NotAsked
    /\ sclean' = _strip_html_content(semail, sraised)
    /\ UNCHANGED <<semail, sraised, wvars, kvars, fvars, dvars, mvars, hvars, ivars, pvars, evars, bvars, tvars, cvars, rvars>>

Stage1Next == SStrip

SpecStage1 == Stage1Init /\ [][Stage1Next]_vars

----------------------------------------------------------------------------
(* Properties of stage 1 (SpecStage1) *)

\* C26: the text stage 1 returns is never longer than max_email_length
\* plus the three characters of the ellipsis, on its failure path too.
C26_Stage1TextIsCapped ==
    sclean # NotAsked => TLen(sclean) <= max_email_length + 3

\* Without a failure the text is capped
C26_CappedUnlessRaised ==
    (sclean # NotAsked /\ ~sraised) => TLen(sclean) <= max_email_length + 3

C26_UncappedSeen ==
    /\ sclean # NotAsked /\ sraised
    /\ TLen(semail.text_content) = 2 * max_email_length + 3
    /\ sclean = semail.text_content

----------------------------------------------------------------------------
(* Order of the LLM provider fallbacks (SpecManager) *)

\* The provider's initializer runs through: its prerequisites are there and
\* none of its constructor calls raises
Initializes(provider, cfg) ==
    CASE provider = P_openai -> cfg.openai_api_key /\ cfg.ctor.openai = 3
      [] provider = P_gemini -> cfg.GEMINI_AVAILABLE /\ cfg.gemini_api_key /\ cfg.ctor.gemini = 2
      [] provider = P_ollama -> cfg.ctor.ollama = 3
      [] OTHER -> FALSE

\* The fallback loop skips a provider whose API key is missing
Skipped(provider, cfg) ==
    \/ provider = P_openai /\ ~cfg.openai_api_key
    \/ provider = P_gemini /\ ~cfg.gemini_api_key

Rank(provider) ==
    CASE provider = P_openai -> 1 [] provider = P_gemini -> 2 [] provider = P_ollama -> 3

KindOf(provider) ==
    CASE provider = P_openai -> "ChatOpenAI"
      [] provider = P_gemini -> "ChatGoogleGenerativeAI"
      [] provider = P_ollama -> "ChatOllama"

PrimaryOf(cfg) ==
    CASE cfg.llm_provider = <<"O","p","e","n","A","I">> -> P_openai
      [] OTHER -> cfg.llm_provider

\* C27: the primary provider is attempted first; after its failure the other
\* providers are attempted in the order openai, gemini, ollama, each at most
\* once and never the primary again; every provider attempted before the last
\* one failed, every one passed over had no API key; the model under
\* 'primary' is that of the first provider that initialized, and it is the
\* mock only when every provider failed or was skipped.
C27_FallbackOrderIsFixed ==
    LET primary == PrimaryOf(icfg)
        known == primary \in {P_openai, P_gemini, P_ollama}
        n == Len(iattempts)
        first == IF known THEN 2 ELSE 1     \* where the fallbacks start
    IN  ipc \notin {"off", "primary"} =>
        /\ known => n >= 1 /\ iattempts[1] = primary
        /\ \A i, j \in 1..n : i < j => iattempts[i] # iattempts[j]
        /\ \A i \in first..n : iattempts[i] # primary /\ ~Skipped(iattempts[i], icfg)
        /\ \A i, j \in first..n : i < j => Rank(iattempts[i]) < Rank(iattempts[j])
        /\ \A i \in 1..(n - 1) : ~Initializes(iattempts[i], icfg)
        /\ \A q \in {P_openai, P_gemini, P_ollama} :
              (q # primary /\ n >= first /\ Rank(q) < Rank(iattempts[n]))
                 => (Skipped(q, icfg) \/ \E i \in first..n : iattempts[i] = q)
        /\ ipc = "done" =>
              IF n >= 1 /\ Initializes(iattempts[n], icfg)
              THEN imodels["primary"] = KindOf(iattempts[n])
              ELSE /\ imodels["primary"] = "FakeListLLM"
                   /\ \A q \in {P_openai, P_gemini, P_ollama} :
                         \/ q # primary /\ Skipped(q, icfg)
                         \/ (\E i \in 1..n : iattempts[i] = q) /\ ~Initializes(q, icfg)

C27_Witness ==
    /\ ipc = "done" /\ icfg.llm_provider = P_gemini /\ ~icfg.openai_api_key
    /\ icfg.gemini_api_key /\ icfg.GEMINI_AVAILABLE /\ icfg.ctor.gemini = 1
    /\ iattempts = << P_gemini, P_ollama >>
    /\ imodels["primary"] = "ChatOllama" /\ imodels["gemini-pro"] = "absent"

C27_WitnessMock ==
    /\ ipc = "done" /\ icfg.llm_provider = <<"O","p","e","n","A","I">>
    /\ iattempts = << P_openai, P_gemini, P_ollama >>
    /\ imodels["primary"] = "FakeListLLM" /\ imodels["llama2"] = "ChatOllama"

----------------------------------------------------------------------------
(* Order of the stages of process_email (Spec) *)

\* The stages in the order of the code: normalization, anonymization,
\* metadata, matcher lookup, classification branch, enhancement, write-back,
\* timestamp
StageOrder ==
    { <<"idle", "stripped">>, <<"returned", "stripped">>, <<"stripped", "anonymized">>,
      <<"anonymized", "metadata">>, <<"metadata", "looked">>, <<"looked", "classified">>,
      <<"classified", "enhanced">>, <<"enhanced", "stored">>, <<"stored", "returned">> }

Scraped(run) ==
    "success" \in DOMAIN run.scraped /\ run.scraped.success

\* C28: every step of a run moves to the next stage of the fixed order; the
\* LLM is invoked only in the stage after the matcher lookup; the index is
\* written only in the stage after enhancement, with an entry that carries the
\* DPO email the run's result has then (the scraped one when the scraper
\* found one); and the timestamp is unset until the last stage and set in
\* every returned result.
C28_StagesInFixedOrder ==
    [][ /\ <<phase, phase'>> \in StageOrder
        /\ (phase # "idle" /\ phase' # "stripped" /\ cur'.llmCalls # cur.llmCalls) =>
              /\ phase = "looked" /\ cur'.llmCalls = cur.llmCalls + 1
              /\ cur'.candidates = cur.candidates /\ cur'.match = cur.match
        /\ phase' = "stripped" => cur'.llmCalls = 0 /\ cur'.adds = 0
        /\ index' # index =>
              /\ phase = "enhanced" /\ phase' = "stored"
              /\ Len(index') = Len(index) + 1
              /\ LET entry == index'[Len(index')]
                 IN  /\ entry.metadata.dpo_email = cur.result.business_entity.dpo_email
                     /\ Scraped(cur) => entry.metadata.dpo_email = cur.scraped.dpo_email
        /\ phase' \in {"classified", "enhanced", "stored"} => cur'.result.processed_at = "None"
        /\ phase' = "returned" => cur'.result.processed_at = "now" ]_vars

C28_Witness ==
    /\ Finished /\ cur.llmCalls = 1 /\ cur.adds = 1 /\ Scraped(cur)
    /\ cur.answer.business_entity.dpo_email = None
    /\ Len(index) = cur.size0 + 1
    /\ index[Len(index)].metadata.dpo_email = D_dpo
    /\ cur.result.processed_at = "now"

----------------------------------------------------------------------------
(* A classification stored by add_email_embedding and read back by the      *)
(* matcher's accessors                                                      *)

I_retail == <<"r","e","t","a","i","l">>
L_ottawa == <<"O","t","t","a","w","a">>
D_privacy == <<"p","r","i","v","a","c","y","@","a","c","m","e",".","c","o",".","u","k">>

\* Business entities as a BusinessEntity object can hold them: a name, a
\* website that is none or a validated URL, a DPO email that is none or a
\* validated address, an industry and a location that are none or a string
StoredEntities ==
    [ name : {N_Shopify, N_Unknown, <<>>},
      website : {None, HttpUrl(U_shop)},
      dpo_email : {None, EmailStr(D_dpo), EmailStr(D_privacy)},
      industry : {None, I_retail},
      location : {None, L_ottawa} ]

RoundTripInit ==
    /\ rentity \in StoredEntities /\ rcategory \in Categories
    /\ rentry = NotAsked /\ rback = NotAsked
    /\ fcontent = EmptyText /\ fmeta = NoMetadata /\ fout = NotAsked
    /\ dcontent = EmptyText /\ dresponse = NotAsked /\ dout = NotAsked
    /\ mq = None /\ mc = None /\ msim = 0 /\ mout = MIdle
    /\ htext = <<>> /\ hout = "none"
    /\ icfg = NoConfig /\ ipc = "off" /\ itodo = <<>> /\ imodels = NoModels
    /\ iattempts = <<>> /\ igot = NotAsked
    /\ llm = "none" /\ emb = "none" /\ mockIdx = 0 /\ index = <<>> /\ runs = 0
    /\ phase = "off" /\ cur = NoRun /\ prev = NoRun
    /\ eenv = NoConfig /\ epc = "off" /\ etodo = <<>> /\ eself = NoService /\ eattempts = <<>>
    /\ bstore = "off" /\ bquery = NoMetadata /\ bcands = <<>> /\ bout = NotAsked
    /\ tpc = "off" /\ tretries = 0 /\ thistory = <<>> /\ tprocessed = 0 /\ tstored = 0
    /\ cmeta = NoMetadata /\ centity = NotAsked /\ ccategory = "none"
    /\ kenv = NoConfig /\ kpc = "off" /\ kself = NoService
    /\ wcoll = {} /\ wissued = {} /\ wpc = <<>> /\ wdoc = <<>> /\ wadded = 0 /\ wsize0 = 0
    /\ semail = NoRun /\ sraised = FALSE /\ sclean = NotAsked

\* Step 7 of a run: the result is written to the index
RStore ==
    /\ rentry = NotAsked
    /\ \E e \in Emails :
          rentry' = add_email_embedding(e.text_content, extract_metadata(e), rcategory,
                                        rentity, 9500)
    /\ UNCHANGED <<rentity, rcategory, rback, svars, wvars, kvars, fvars, dvars, mvars, hvars, ivars, pvars, evars, bvars, tvars, cvars>>

\* A later run finds the entry as a candidate and reads it with the accessors
RRebuild ==
    /\ rentry # NotAsked /\ rback = NotAsked
    /\ \E d \in Distances : \E e \in Emails :
          LET candidate == SearchMatch(rentry.document, rentry.metadata, d)
              vector_match == _calculate_confidence_score(
                                  candidate, extract_metadata(e).sender_domain)
          IN  rback' = [ email_category |-> get_email_category_from_match(vector_match),
                         business_entity |-> extract_business_entity_from_match(vector_match) ]
    /\ UNCHANGED <<rentity, rcategory, rentry, svars, wvars, kvars, fvars, dvars, mvars, hvars, ivars, pvars, evars, bvars, tvars, cvars>>

RoundTripNext ==
    \/ RStore
    \/ RRebuild

SpecRoundTrip == RoundTripInit /\ [][RoundTripNext]_vars

----------------------------------------------------------------------------
(* Properties of the round trip (SpecRoundTrip) *)

\* C29: the accessors rebuild, from a candidate carrying the metadata that
\* add_email_embedding stored, the category that was stored and a business
\* entity with the same name, website, DPO email, industry and location.
C29_StoredClassificationComesBack ==
    rback # NotAsked =>
        /\ rback.email_category = rcategory
        /\ rback.business_entity.name = rentity.name
        /\ rback.business_entity.website = rentity.website
        /\ rback.business_entity.dpo_email = rentity.dpo_email
        /\ rback.business_entity.industry = rentity.industry
        /\ rback.business_entity.location = rentity.location

C29_Witness ==
    /\ rback # NotAsked /\ rcategory = "customer_support"
    /\ rentity.name = <<>> /\ rentity.website = U_shop_norm /\ rentity.dpo_email = D_privacy
    /\ rentity.industry = I_retail /\ rentity.location = None
    /\ rback.business_entity = rentity

----------------------------------------------------------------------------
(* _are_domains_similar on domains of two and more labels (SpecMatcher) *)

\* The dot-separated parts of a domain, and the last two of them
Parts(d) == split(d, ".")
LastTwo(d) == SubSeq(Parts(d), Len(Parts(d)) - 1, Len(Parts(d)))

\* C30: for two different domains of at least two labels each,
\* _are_domains_similar is true exactly when the last two labels of the one
\* are those of the other; a pair that is similar by the suffix rule or the
\* prefix rule alone has a domain of a single label in it.
C30_SimilarIffSameRoot ==
    mout.kind = "similar" =>
        /\ (mq # mc /\ Len(Parts(mq)) >= 2 /\ Len(Parts(mc)) >= 2) =>
              (mout.ab <=> LastTwo(mq) = LastTwo(mc))
        /\ (mout.ab /\ (Len(Parts(mq)) < 2 \/ Len(Parts(mc)) < 2) /\ mq # mc) =>
              \/ endswith(mq, <<".">> \o mc)
              \/ endswith(mc, <<".">> \o mq)

C30_Witness ==
    /\ mout.kind = "similar" /\ mout.ab
    /\ mq = <<"m","a","i","l",".","a","c","m","e",".","c","o","m">>
    /\ mc = <<"c","o","m",".","a","c","m","e",".","c","o","m">>

C30_WitnessSuffixRule ==
    /\ mout.kind = "similar" /\ mout.ab
    /\ mq = <<"m","a","i","l",".","c","o","m">> /\ mc = <<"c","o","m">>

C30_WitnessNotSimilar ==
    /\ mout.kind = "similar" /\ ~mout.ab
    /\ mq = <<"m","a","i","l",".","a","c","m","e">>
    /\ mc = <<"m","a","i","l",".","c","o","m">>

====
